---- MODULE Spec2Model ----
(***************************************************************************)
(* State-machine model of the ntpsync client (package pkg/ntpsync):        *)
(* construction, the sequential sync strategy, and the periodic scheduler  *)
(* (StartPeriodicSync / StopPeriodicSync / periodicSyncLoop) together with *)
(* the older Start / Stop / syncLoop entry points that share its fields.   *)
(* Further: the single exchange and the timestamp conversions, the        *)
(* parallel race, the status queries, RemoveServer, and the Server         *)
(* Manager's probe of all servers.                                         *)
(*                                                                         *)
(* Granularity: a section of code run under n.mutex is one step; code run  *)
(* without the mutex (network exchange, atomic counter add, WaitGroup      *)
(* wait, the loop's select) is a step of its own.  Durations are in        *)
(* seconds, instants are integer clock readings.                           *)
(***************************************************************************)
EXTENDS Integers, Sequences, FiniteSets, Bags, TLC

\* ------------------------------------------------------------------ bounds
NProcs == 3          \* goroutines and callers inside a sync attempt at one time
MaxAttempts == 2     \* sync attempts begun by a scheduler or ForceSyncNow
MaxDirect == 2       \* direct Sync / SyncWithMultiServer calls begun
MaxServers == 2      \* length of the server list handed to New
MaxTime == 2         \* clock readings of an exchange examined alone: 0..MaxTime
MaxNanos == 20       \* nanosecond parts 0..MaxNanos of the instants converted

\* -------------------------------------------------------- program constants
DefaultTimeout == 5
DefaultSyncInterval == 3600
PacketSize == 48

\* ------------------------------------------------------------------ inputs
ServerNames == {"s1", "s2", "s3"}

RECURSIVE ListsOfLen(_)
ListsOfLen(k) ==
  IF k = 0 THEN {<< >>}
  ELSE {Append(l, x) : l \in ListsOfLen(k - 1), x \in ServerNames}

NoDuplicates(l) == \A i, j \in 1..Len(l) : l[i] = l[j] => i = j

ServerLists ==
  {l \in UNION {ListsOfLen(k) : k \in 0..MaxServers} : NoDuplicates(l)}
TimeoutArgs == {0, 2}
IntervalArgs == {0, 60}

OptionsSet ==
  [Servers : ServerLists, Timeout : TimeoutArgs, SyncInterval : IntervalArgs,
   AutoSync : BOOLEAN, EnableMultiServer : BOOLEAN]

\* ------------------------------------------------------------ the exchange
\* Go's integer division truncates toward zero.
TruncDiv(a, b) == IF a >= 0 THEN a \div b ELSE -((-a) \div b)

\* What the environment does to one exchange: where the I/O stops (io), the
\* length of the datagram that arrives (size), its stratum byte, the server's
\* receive/transmit instants t2/t3, and the two local readings of time.Now():
\* the wall clock at send and at receipt (t1, t4) and the monotonic time that
\* passed between the two readings (mono).  t4 - t1 differs from mono when the
\* wall clock was stepped during the exchange.
Packet(io, size, stratum, t1, t2, t3, t4, mono) ==
  [io |-> io, size |-> size, stratum |-> stratum,
   t1 |-> t1, t2 |-> t2, t3 |-> t3, t4 |-> t4, mono |-> mono]

RespIOFail == Packet("read", 0, 0, 10, 0, 0, 0, 0)
RespStratum0 == Packet("ok", 48, 0, 10, 16, 17, 13, 3)
RespOkA == Packet("ok", 48, 2, 10, 16, 17, 13, 3)
RespOkB == Packet("ok", 48, 1, 10, 8, 9, 14, 4)
RespOkC == Packet("ok", 48, 1, 10, 12, 13, 14, 4)
Responses == {RespIOFail, RespStratum0, RespOkA, RespOkB}

\* The answers given to the calls that contact several servers: two kinds of
\* failure, a stratum-2 success with the shortest round trip, and two
\* stratum-1 successes with equal round trips and different offsets.
RaceResponses == {RespIOFail, RespStratum0, RespOkA, RespOkB, RespOkC}

\* The exchanges examined one at a time: every way the I/O can stop, short,
\* exact and oversized datagrams, and for the datagrams that fill the buffer
\* every stratum of Strata with every combination of clock readings.
IOStops == {"dial", "deadline", "write", "read"}
Sizes == {0, 47, 48, 68}
Strata == {0, 1, 15, 16, 255}
TimeRange == 0..MaxTime

Packets ==
  {Packet(io, 0, 0, 0, 0, 0, 0, 0) : io \in IOStops}
    \cup {Packet("ok", n, 1, 0, 1, 1, 1, 1) : n \in {m \in Sizes : m < 48}}
    \cup {Packet("ok", n, st, t1, t2, t3, t4, mono) :
            n \in {m \in Sizes : m >= 48}, st \in Strata,
            t1 \in TimeRange, t2 \in TimeRange, t3 \in TimeRange,
            t4 \in TimeRange, mono \in TimeRange}

\* conn.Read into the 48-byte buffer: the count it returns for a datagram of
\* the given size.  (Where the platform reports an oversized datagram as an
\* error instead of cutting it, the exchange is one that stops at "read".)
Read(size) == IF size < PacketSize THEN size ELSE PacketSize

ExchangeError(kind) ==
  [err |-> kind, Server |-> "", Offset |-> 0, RTT |-> 0, Stratum |-> 0]

\* Variant: an exchange without the stratum test.
syncWithServerBinary_AnyStratum(server, r) ==
  IF r.io = "dial" THEN ExchangeError("ConnectFailed")
  ELSE IF r.io = "deadline" THEN ExchangeError("SetDeadlineFailed")
  ELSE IF r.io = "write" THEN ExchangeError("SendFailed")
  ELSE IF r.io = "read" THEN ExchangeError("ReadFailed")
  ELSE IF Read(r.size) # PacketSize THEN ExchangeError("MalformedResponse")
  ELSE LET offset == TruncDiv((r.t2 - r.t1) + (r.t3 - r.t4), 2)
           rtt == r.mono - (r.t3 - r.t2)
       IN IF rtt < 0 THEN ExchangeError("NegativeRTT")
          ELSE [err |-> "nil", Server |-> server, Offset |-> offset,
                RTT |-> rtt, Stratum |-> r.stratum]

\* Variant: an exchange that clamps a negative round trip to zero.
syncWithServerBinary_ClampRTT(server, r) ==
  IF r.io = "dial" THEN ExchangeError("ConnectFailed")
  ELSE IF r.io = "deadline" THEN ExchangeError("SetDeadlineFailed")
  ELSE IF r.io = "write" THEN ExchangeError("SendFailed")
  ELSE IF r.io = "read" THEN ExchangeError("ReadFailed")
  ELSE IF Read(r.size) # PacketSize THEN ExchangeError("MalformedResponse")
  ELSE IF r.stratum = 0 THEN ExchangeError("InvalidStratum")
  ELSE LET offset == TruncDiv((r.t2 - r.t1) + (r.t3 - r.t4), 2)
           rtt == r.mono - (r.t3 - r.t2)
       IN [err |-> "nil", Server |-> server, Offset |-> offset,
           RTT |-> IF rtt < 0 THEN 0 ELSE rtt, Stratum |-> r.stratum]

\* t1 and t4 come from time.Now() and carry a monotonic reading, so
\* t4.Sub(t1) is the monotonic time between them; t2 and t3 come from
\* time.Unix and carry none, so t2.Sub(t1) and t3.Sub(t4) subtract wall-clock
\* readings.
syncWithServerBinary(server, r) ==
  IF r.io = "dial" THEN ExchangeError("ConnectFailed")
  ELSE IF r.io = "deadline" THEN ExchangeError("SetDeadlineFailed")
  ELSE IF r.io = "write" THEN ExchangeError("SendFailed")
  ELSE IF r.io = "read" THEN ExchangeError("ReadFailed")
  ELSE IF Read(r.size) # PacketSize THEN ExchangeError("MalformedResponse")
  ELSE IF r.stratum = 0 THEN ExchangeError("InvalidStratum")
  ELSE LET offset == TruncDiv((r.t2 - r.t1) + (r.t3 - r.t4), 2)
           rtt == r.mono - (r.t3 - r.t2)
       IN IF rtt < 0 THEN ExchangeError("NegativeRTT")
          ELSE [err |-> "nil", Server |-> server, Offset |-> offset,
                RTT |-> rtt, Stratum |-> r.stratum]

\* ----------------------------------------------------- timestamp conversion
\* A 32-bit unsigned word, kept as two 16-bit halves: hi * 2^16 + lo.
Half == 65536
Word(hi, lo) == [hi |-> hi, lo |-> lo]

\* uint32 addition and subtraction: modulo 2^32.
AddWord(a, b) ==
  Word((a.hi + b.hi + ((a.lo + b.lo) \div Half)) % Half,
       (a.lo + b.lo) % Half)
SubWord(a, b) ==
  Word((a.hi - b.hi - (IF a.lo < b.lo THEN 1 ELSE 0)) % Half,
       (a.lo - b.lo) % Half)

\* 2208988800 = 33706 * 2^16 + 32384
ntpEpoch == Word(33706, 32384)
NanosPerSecond == 1000000000

\* <<quotient, remainder>> of b * c divided by m, for 0 <= b < m, by doubling
\* over the bits of c (no intermediate value reaches 2 * m).
RECURSIVE MulDivMod(_, _, _)
MulDivMod(b, c, m) ==
  IF c = 0 THEN <<0, 0>>
  ELSE LET h == MulDivMod(b, c \div 2, m)
           r == ((2 * h[2]) % m) + (IF c % 2 = 1 THEN b ELSE 0)
       IN <<(2 * h[1]) + ((2 * h[2]) \div m) + (r \div m), r % m>>

\* An instant: unix seconds (a time.Now() reading, 0 <= seconds < 2^32) and
\* nanoseconds within the second.
Time(sec, nsec) == [sec |-> sec, nsec |-> nsec]

\* Variant: an encoder that leaves the seconds on the unix epoch.
timeToNTPTime_UnixEpoch(t) ==
  LET up == MulDivMod(t.nsec, Half, NanosPerSecond)
      low == MulDivMod(up[2], Half, NanosPerSecond)
  IN [seconds |-> t.sec, fraction |-> Word(up[1], low[1])]

\* seconds = uint32(unix + ntpEpoch); fraction = uint32(nsec * 2^32 / 10^9),
\* whose upper half is nsec * 2^16 / 10^9 and whose lower half is the
\* remainder of that division times 2^16, divided by 10^9.
timeToNTPTime(t) ==
  LET up == MulDivMod(t.nsec, Half, NanosPerSecond)
      low == MulDivMod(up[2], Half, NanosPerSecond)
  IN [seconds |-> AddWord(t.sec, ntpEpoch), fraction |-> Word(up[1], low[1])]

\* secs = int64(seconds - ntpEpoch), the subtraction in uint32;
\* nanos = fraction * 10^9 / 2^32 = (hi * 10^9 + lo * 10^9 / 2^16) / 2^16.
ntpTimeToTime(seconds, fraction) ==
  LET up == MulDivMod(fraction.hi, NanosPerSecond, Half)
      low == MulDivMod(fraction.lo, NanosPerSecond, Half)
  IN Time(SubWord(seconds, ntpEpoch),
          up[1] + ((up[2] + low[1]) \div Half))

\* The instants converted: the first second of 1970, of 2020, the last second
\* of NTP era 0 and the first of era 1 (2036), and the last second a uint32
\* of unix seconds holds; nanoseconds near 0, around 5^9 and the half second,
\* and at the end of the second.
Jan2020 == Word(24075, 57600)
SecondsSet ==
  {Word(0, 0), Jan2020, Word(31829, 33151), Word(31829, 33152),
   Word(65535, 65535)}
NanosSet ==
  (0..MaxNanos) \cup {1953124, 1953125, 1953126, 250000000, 499999999,
                      500000000, 500000001, 999999998, 999999999}
Instants == {Time(sec, nsec) : sec \in SecondsSet, nsec \in NanosSet}

\* ------------------------------------------------------------------- state
VARIABLES
  opts,          \* the Options handed to New
  phase,         \* "uninit" | "ready" (New returned a client) | "failed"
  Servers, Timeout, SyncInterval, TimeOffset, LastSync, AutoSync,
  stopChan,      \* identity of the channel in n.stopChan (0 = nil)
  closed,        \* channels that have been closed
  syncWaitGroup, \* counter of n.syncWaitGroup
  lastError, successCount, errorCount,
  g,             \* goroutines and blocked callers
  waiting,       \* callers blocked in syncWaitGroup.Wait(), per entry point
  started,       \* scheduler / force attempts begun
  direct,        \* direct sync calls begun
  last,          \* the API call that returned last, with its result
  serverManager, \* n.serverManager: the Server Manager, or NoManager (nil)
  packet,        \* the answer the environment gives when exchanges are
                 \* examined one at a time
  instant,       \* a timestamp conversion taken alone: the instant t,
  stamp,         \* ... timeToNTPTime(t)
  decoded        \* ... and ntpTimeToTime of that

vars == <<opts, phase, Servers, Timeout, SyncInterval, TimeOffset, LastSync,
          AutoSync, stopChan, closed, syncWaitGroup, lastError, successCount,
          errorCount, g, waiting, started, direct, last, serverManager,
          packet, instant, stamp, decoded>>

\* The variables used when an exchange or a conversion is examined alone.
alone == <<packet, instant, stamp, decoded>>

config == <<opts, Servers, Timeout, SyncInterval>>
sched == <<AutoSync, stopChan, closed, syncWaitGroup, waiting>>
counters == <<lastError, successCount, errorCount>>
syncState == <<TimeOffset, LastSync>>

\* Error values: nil, or a kind with the cause it wraps.
Err(kind, cause) == [kind |-> kind, cause |-> cause]
Nil == Err("nil", "")

NoResult == ExchangeError("none")

\* An entry of a call's history: the exchange with the server at position i
\* of the call's copy of the list was answered by r and returned res.
Exchanged(i, server, r, res) ==
  [i |-> i, server |-> server, err |-> res.err, r |-> r, res |-> res]

\* A goroutine, or a caller inside a sync attempt.  Goroutines carry no
\* identity, so g is a bag of these records.  ret is the error of the
\* attempt the goroutine ran last.  A caller that fans out one goroutine per
\* server owns them: wg holds the positions (in snap) of those still running,
\* resultChan / errChan / statusChan what they have sent and the caller has
\* not received yet, chClosed whether the channels are closed, result the
\* best result received so far, statuses the statuses collected so far.
\* results is a history: what each of its goroutines got from its exchange,
\* in the order they finished.  rl counts the RLock() calls on the client's
\* mutex that the goroutine has not matched with RUnlock() yet; wl tells that
\* it is inside Lock() on that mutex, waiting for the readers to leave.
Proc(kind, pc, op, counted) ==
  [kind |-> kind, pc |-> pc, op |-> op, counted |-> counted, ch |-> 0,
   ivl |-> 0, snap |-> << >>, tmo |-> 0, tried |-> << >>, ret |-> Nil,
   wg |-> {}, resultChan |-> << >>, errChan |-> << >>, statusChan |-> << >>,
   chClosed |-> FALSE, result |-> NoResult, statuses |-> << >>,
   results |-> << >>, rl |-> 0, wl |-> FALSE]

Procs == BagToSet(g)
Spawn(gs, rec) == gs (+) SetToBag({rec})
Exit(gs, rec) == gs (-) SetToBag({rec})
Become(gs, rec, new) == Spawn(Exit(gs, rec), new)
Room(gs, k) == BagCardinality(gs) + k <= NProcs

StopOps == {"StopPeriodicSync", "Stop"}

\* time.Now(): the wall clock, which has advanced whenever an attempt began.
Now == started + direct + 1

\* val: what the call produced besides its error (the SyncResult a sync call
\* adopted, the statuses a status query returned).  tried is a history: the
\* exchanges the call made with their outcomes, in the order they were made
\* (sequential call) or finished (call that fans out).
Returned(op, ret, k) ==
  [op |-> op, ret |-> ret, k |-> k, val |-> << >>, tried |-> << >>]

NoManager == [servers |-> << >>, serverOrder |-> << >>, timeout |-> 0]
None == [none |-> TRUE]

\* The client's fields before New is called.
Blank ==
  /\ phase = "uninit"
  /\ Servers = << >> /\ Timeout = 0 /\ SyncInterval = 0
  /\ TimeOffset = 0 /\ LastSync = 0 /\ AutoSync = FALSE
  /\ stopChan = 0 /\ closed = {} /\ syncWaitGroup = 0
  /\ lastError = Nil /\ successCount = 0 /\ errorCount = 0
  /\ g = EmptyBag
  /\ waiting = [op \in StopOps |-> 0]
  /\ started = 0 /\ direct = 0
  /\ last = Returned("none", Nil, 0)
  /\ serverManager = NoManager

\* Before New is called.
InitClient ==
  /\ opts \in OptionsSet
  /\ Blank

Init ==
  /\ InitClient
  /\ packet = None
  /\ instant = None /\ stamp = None /\ decoded = None

\* ----------------------------------------------------------- Server Manager
ServerStatus(addr) ==
  [Address |-> addr, Reachable |-> FALSE, LastResponse |-> 0, RTT |-> 0,
   Stratum |-> 0, Offset |-> 0]

\* Called by New with a non-empty list and a positive timeout.
NewServerManager(servers, timeout) ==
  [servers |-> [a \in {servers[i] : i \in 1..Len(servers)} |-> ServerStatus(a)],
   serverOrder |-> servers, timeout |-> timeout]

\* ---------------------------------------------------------------- scheduler
IsPeriodicSyncRunning == IF stopChan \in closed THEN FALSE ELSE AutoSync

IsRunning == IsPeriodicSyncRunning

\* The goroutines a successful start launches: the fire-and-forget initial
\* sync and the loop.  counted tells the periodic scheduler (which records
\* outcomes) from the older Start/syncLoop (which does not).
Launch(gs, counted) ==
  Spawn(Spawn(gs, Proc("init", "sync", "", counted)),
        Proc("loop", "top", "", counted))

\* Variant: a start that does not look at the stop channel.
StartSection_Unchecked(n) ==
  [err |-> Nil, stopChan |-> n.stopChan + 1, closed |-> n.closed,
   syncWaitGroup |-> n.syncWaitGroup + 1, AutoSync |-> TRUE, launch |-> TRUE]

\* The critical section of StartPeriodicSync / Start on the fields in n.
StartSection(n) ==
  IF n.stopChan \in n.closed
  THEN [err |-> Nil, stopChan |-> n.stopChan + 1, closed |-> n.closed,
        syncWaitGroup |-> n.syncWaitGroup + 1, AutoSync |-> TRUE,
        launch |-> TRUE]
  ELSE [err |-> Err("AlreadyRunning", ""), stopChan |-> n.stopChan,
        closed |-> n.closed, syncWaitGroup |-> n.syncWaitGroup,
        AutoSync |-> n.AutoSync, launch |-> FALSE]

StartCall(op, counted) ==
  LET o == StartSection([stopChan |-> stopChan, closed |-> closed,
                         syncWaitGroup |-> syncWaitGroup,
                         AutoSync |-> AutoSync])
  IN /\ phase = "ready"
     /\ o.launch => (Room(g, 2) /\ started < MaxAttempts)
     /\ stopChan' = o.stopChan /\ closed' = o.closed
     /\ syncWaitGroup' = o.syncWaitGroup /\ AutoSync' = o.AutoSync
     /\ g' = IF o.launch THEN Launch(g, counted) ELSE g
     /\ started' = IF o.launch THEN started + 1 ELSE started
     /\ last' = Returned(op, o.err, 0)
     /\ UNCHANGED <<config, serverManager, alone, phase, counters, syncState, direct, waiting>>

StartPeriodicSync == StartCall("StartPeriodicSync", TRUE)

Start == StartCall("Start", FALSE)

New ==
  /\ phase = "uninit"
  /\ IF Len(opts.Servers) = 0
     THEN /\ phase' = "failed"
          /\ last' = Returned("New", Err("NoServersConfigured", ""), 0)
          /\ UNCHANGED <<Servers, Timeout, SyncInterval, sched, g, started,
                         serverManager>>
     ELSE LET o == StartSection([stopChan |-> 1, closed |-> {},
                                 syncWaitGroup |-> 0,
                                 AutoSync |-> opts.AutoSync])
          IN /\ Servers' = opts.Servers
             /\ Timeout' = IF opts.Timeout <= 0 THEN DefaultTimeout
                           ELSE opts.Timeout
             /\ SyncInterval' = IF opts.SyncInterval <= 0
                                THEN DefaultSyncInterval
                                ELSE opts.SyncInterval
             /\ IF opts.AutoSync
                THEN /\ stopChan' = o.stopChan /\ closed' = o.closed
                     /\ syncWaitGroup' = o.syncWaitGroup
                     /\ AutoSync' = o.AutoSync
                     /\ g' = IF o.launch THEN Launch(g, TRUE) ELSE g
                     /\ started' = IF o.launch THEN started + 1 ELSE started
                     /\ phase' = IF o.err = Nil THEN "ready" ELSE "failed"
                     /\ last' = Returned("New", o.err, 0)
                ELSE /\ stopChan' = 1 /\ closed' = {}
                     /\ syncWaitGroup' = 0 /\ AutoSync' = FALSE
                     /\ phase' = "ready"
                     /\ last' = Returned("New", Nil, 0)
                     /\ UNCHANGED <<g, started>>
             /\ serverManager' =
                  IF opts.EnableMultiServer
                  THEN NewServerManager(opts.Servers, Timeout')
                  ELSE NoManager
             /\ UNCHANGED waiting
  /\ UNCHANGED <<opts, counters, syncState, direct, alone>>

\* StopPeriodicSync / Stop up to the release of the mutex; a call that closed
\* the channel goes on to syncWaitGroup.Wait().
StopCall(op) ==
  /\ phase = "ready"
  /\ IF stopChan \in closed
     THEN /\ last' = Returned(op, Nil, 0)
          /\ UNCHANGED sched
     ELSE /\ closed' = closed \cup {stopChan}
          /\ AutoSync' = FALSE
          /\ waiting' = [waiting EXCEPT ![op] = @ + 1]
          /\ UNCHANGED <<stopChan, syncWaitGroup, last>>
  /\ UNCHANGED <<config, serverManager, alone, phase, counters, syncState, g, started, direct>>

StopPeriodicSync == StopCall("StopPeriodicSync")

Stop == StopCall("Stop")

\* Variant: a stop that does not join the loop.
StopWait_NoJoin(op) ==
  /\ waiting[op] > 0
  /\ waiting' = [waiting EXCEPT ![op] = @ - 1]
  /\ last' = Returned(op, Nil, 0)
  /\ UNCHANGED <<config, serverManager, alone, phase, AutoSync, stopChan, closed, syncWaitGroup,
                 counters, syncState, g, started, direct>>

\* syncWaitGroup.Wait() returns, and with it a stop call.
StopWait(op) ==
  /\ waiting[op] > 0
  /\ syncWaitGroup = 0
  /\ waiting' = [waiting EXCEPT ![op] = @ - 1]
  /\ last' = Returned(op, Nil, 0)
  /\ UNCHANGED <<config, serverManager, alone, phase, AutoSync, stopChan, closed, syncWaitGroup,
                 counters, syncState, g, started, direct>>

\* ------------------------------------------------------------ sync attempts
\* Sync() returned err to the goroutine or caller p (k: position of the
\* adopted server, 0 if none; val: the result adopted, if any; tried: the
\* exchanges made).  A recording owner goes on to count the outcome; syncLoop
\* starts its next iteration; the initial sync of Start ends; a direct caller
\* gets err.
SyncReturns(p, err, k, val, tried) ==
  /\ g' = IF p.counted
          THEN Become(g, p, [Proc(p.kind, "count", p.op, TRUE)
                               EXCEPT !.ret = err])
          ELSE IF p.kind = "loop"
          THEN Become(g, p, [Proc("loop", "top", "", FALSE) EXCEPT !.ret = err])
          ELSE Exit(g, p)
  /\ last' = IF p.kind = "sync"
             THEN [Returned(p.op, err, k) EXCEPT !.val = val, !.tried = tried]
             ELSE last

\* SyncWithBinary / SyncWithMultiServer: copy the configuration under the
\* mutex; an empty list ends the call.
SyncBegin(p) ==
  /\ p.pc = "sync"
  /\ IF Len(Servers) = 0
     THEN SyncReturns(p, Err("NoServersConfigured", ""), 0, << >>, << >>)
     ELSE /\ g' = Become(g, p, [p EXCEPT !.pc = "exchange",
                                          !.snap = Servers, !.tmo = Timeout])
          /\ UNCHANGED last
  /\ UNCHANGED <<config, serverManager, alone, phase, sched, counters, syncState, started, direct>>

\* Variant: a failover loop that walks the list backwards.
NextServer_Backwards(rec) == rec.snap[Len(rec.snap) - Len(rec.tried)]

\* The server the failover loop contacts next.
NextServer(rec) == rec.snap[Len(rec.tried) + 1]

\* Variant: a success path that stores the offset and leaves LastSync alone.
SyncExchange_OffsetOnly(p, r) ==
  /\ p.pc = "exchange"
  /\ LET res == syncWithServerBinary(NextServer(p), r)
         tried == Append(p.tried,
                         Exchanged(Len(p.tried) + 1, NextServer(p), r, res))
     IN IF res.err # "nil"
        THEN /\ IF Len(tried) = Len(p.snap)
                THEN SyncReturns(p, Err("AllServersFailed", res.err), 0, << >>, tried)
                ELSE /\ g' = Become(g, p, [p EXCEPT !.tried = tried])
                     /\ UNCHANGED last
             /\ UNCHANGED syncState
        ELSE /\ TimeOffset' = res.Offset
             /\ UNCHANGED LastSync
             /\ SyncReturns(p, Nil, Len(tried), <<res>>, tried)
  /\ UNCHANGED <<config, serverManager, alone, phase, sched, counters, started, direct>>

\* One iteration of the failover loop: the exchange with the next server
\* answers r.  A failure is remembered and the loop goes on (or, after the
\* last server, the call fails); a success is adopted under the mutex and the
\* call returns.
SyncExchange(p, r) ==
  /\ p.pc = "exchange"
  /\ LET res == syncWithServerBinary(NextServer(p), r)
         tried == Append(p.tried,
                         Exchanged(Len(p.tried) + 1, NextServer(p), r, res))
     IN IF res.err # "nil"
        THEN /\ IF Len(tried) = Len(p.snap)
                THEN SyncReturns(p, Err("AllServersFailed", res.err), 0, << >>, tried)
                ELSE /\ g' = Become(g, p, [p EXCEPT !.tried = tried])
                     /\ UNCHANGED last
             /\ UNCHANGED syncState
        ELSE /\ TimeOffset' = res.Offset
             /\ LastSync' = Now
             /\ SyncReturns(p, Nil, Len(tried), <<res>>, tried)
  /\ UNCHANGED <<config, serverManager, alone, phase, sched, counters, started, direct>>

\* atomic.AddInt64 on the counter that matches the outcome.
CountOutcome(p) ==
  /\ p.pc = "count"
  /\ IF p.ret # Nil
     THEN errorCount' = errorCount + 1 /\ UNCHANGED successCount
     ELSE successCount' = successCount + 1 /\ UNCHANGED errorCount
  /\ g' = Become(g, p, [p EXCEPT !.pc = "record"])
  /\ UNCHANGED <<config, serverManager, alone, phase, sched, lastError, syncState, started, direct,
                 last>>

\* Variant: a loop that gives up after a failed attempt.
RecordOutcome_ReturnOnError(p) ==
  /\ p.pc = "record"
  /\ IF p.ret # Nil
     THEN lastError' = p.ret /\ UNCHANGED LastSync
     ELSE LastSync' = Now /\ UNCHANGED lastError
  /\ g' = IF p.kind = "loop" /\ p.ret = Nil
          THEN Become(g, p, [Proc("loop", "top", "", TRUE) EXCEPT !.ret = p.ret])
          ELSE Exit(g, p)
  /\ syncWaitGroup' = IF p.kind = "loop" /\ p.ret # Nil
                      THEN syncWaitGroup - 1 ELSE syncWaitGroup
  /\ last' = IF p.kind = "force" THEN Returned(p.op, p.ret, 0) ELSE last
  /\ UNCHANGED <<config, serverManager, alone, phase, AutoSync, stopChan, closed, waiting,
                 successCount, errorCount, TimeOffset, started, direct>>

\* The locked update that follows the counter: lastError or LastSync.
RecordOutcome(p) ==
  /\ p.pc = "record"
  /\ IF p.ret # Nil
     THEN lastError' = p.ret /\ UNCHANGED LastSync
     ELSE LastSync' = Now /\ UNCHANGED lastError
  /\ g' = IF p.kind = "loop"
          THEN Become(g, p, [Proc("loop", "top", "", TRUE) EXCEPT !.ret = p.ret])
          ELSE Exit(g, p)
  /\ last' = IF p.kind = "force" THEN Returned(p.op, p.ret, 0) ELSE last
  /\ UNCHANGED <<config, serverManager, alone, phase, sched, successCount, errorCount, TimeOffset,
                 started, direct>>

ForceSyncNow ==
  /\ phase = "ready"
  /\ Room(g, 1) /\ started < MaxAttempts
  /\ g' = Spawn(g, Proc("force", "sync", "ForceSyncNow", TRUE))
  /\ started' = started + 1
  /\ UNCHANGED <<config, serverManager, alone, phase, sched, counters, syncState, direct, last>>

SyncCall(op) ==
  /\ phase = "ready"
  /\ Room(g, 1) /\ direct < MaxDirect
  /\ g' = Spawn(g, Proc("sync", "sync", op, FALSE))
  /\ direct' = direct + 1
  /\ UNCHANGED <<config, serverManager, alone, phase, sched, counters, syncState, started, last>>

Sync == SyncCall("Sync")

SyncWithMultiServer == SyncCall("SyncWithMultiServer")

\* ------------------------------------------------ SyncWithMultiServerParallel
\* A call that contacts several servers; in the specifications that have
\* such calls they are made one after another.
MultiCall(kind, op) ==
  /\ phase = "ready"
  /\ g = EmptyBag /\ direct < MaxDirect
  /\ g' = Spawn(g, Proc(kind, "begin", op, FALSE))
  /\ direct' = direct + 1
  /\ UNCHANGED <<config, serverManager, alone, phase, sched, counters,
                 syncState, started, last>>

SyncWithMultiServerParallel == MultiCall("race", "SyncWithMultiServerParallel")

\* The call returns err to its caller.
MultiReturns(p, err, val) ==
  /\ g' = Exit(g, p)
  /\ last' = [Returned(p.op, err, 0) EXCEPT !.val = val, !.tried = p.results]

\* Copy the configuration under the mutex; an empty list ends the call,
\* otherwise one goroutine per server is launched.
RaceBegin(p) ==
  /\ p.kind = "race" /\ p.pc = "begin"
  /\ IF Len(Servers) = 0
     THEN MultiReturns(p, Err("NoServersConfigured", ""), << >>)
     ELSE /\ g' = Become(g, p, [p EXCEPT !.pc = "collect", !.snap = Servers,
                                          !.tmo = Timeout,
                                          !.wg = 1..Len(Servers)])
          /\ UNCHANGED last
  /\ UNCHANGED <<config, serverManager, alone, phase, sched, counters,
                 syncState, started, direct>>

\* The goroutine for the server at position i: its exchange is answered by r
\* and it sends the result or the error (the channels have room for all).
RaceWorker(p, i, r) ==
  /\ p.kind = "race" /\ i \in p.wg
  /\ LET res == syncWithServerBinary(p.snap[i], r)
         q == [p EXCEPT !.wg = @ \ {i},
                        !.results = Append(@, Exchanged(i, p.snap[i], r, res))]
     IN g' = Become(g, p,
               IF res.err # "nil"
               THEN [q EXCEPT !.errChan = Append(@, res.err)]
               ELSE [q EXCEPT !.resultChan = Append(@, res)])
  /\ UNCHANGED <<config, serverManager, alone, phase, sched, counters,
                 syncState, started, direct, last>>

\* Variant: a closing goroutine that does not wait for the attempts.
RaceClose_NoWait(p) ==
  /\ p.kind = "race" /\ p.pc = "collect"
  /\ ~p.chClosed
  /\ g' = Become(g, p, [p EXCEPT !.chClosed = TRUE])
  /\ UNCHANGED <<config, serverManager, alone, phase, sched, counters,
                 syncState, started, direct, last>>

\* The closing goroutine: wg.Wait() returns and both channels are closed.
RaceClose(p) ==
  /\ p.kind = "race" /\ p.pc = "collect"
  /\ p.wg = {} /\ ~p.chClosed
  /\ g' = Become(g, p, [p EXCEPT !.chClosed = TRUE])
  /\ UNCHANGED <<config, serverManager, alone, phase, sched, counters,
                 syncState, started, direct, last>>

\* Variant: a race that ranks by round trip alone.
Better_RTTOnly(r, best) == best = NoResult \/ r.RTT < best.RTT

\* The test that makes the received result r the best so far.
Better(r, best) ==
  \/ best = NoResult
  \/ r.Stratum < best.Stratum
  \/ (r.Stratum = best.Stratum /\ r.RTT < best.RTT)

\* for r := range resultChan: one result is received and compared.
RaceReceive(p) ==
  /\ p.kind = "race" /\ p.pc = "collect"
  /\ p.resultChan # << >>
  /\ LET r == Head(p.resultChan)
     IN g' = Become(g, p, [p EXCEPT !.resultChan = Tail(@),
                                    !.result = IF Better(r, @) THEN r ELSE @])
  /\ UNCHANGED <<config, serverManager, alone, phase, sched, counters,
                 syncState, started, direct, last>>

\* Variant: a failed race that reports the first error sent.
LastErr_First(errs) == errs[1]

\* for err := range errChan { lastErr = err }
LastErr(errs) == errs[Len(errs)]

\* resultChan is closed and drained: without a result the call fails with
\* the error received last, otherwise the best result is adopted under the
\* mutex and the call returns nil.
RaceFinish(p) ==
  /\ p.kind = "race" /\ p.pc = "collect"
  /\ p.resultChan = << >> /\ p.chClosed
  /\ IF p.result = NoResult
     THEN /\ MultiReturns(p, IF p.errChan # << >>
                             THEN Err("AllServersFailed", LastErr(p.errChan))
                             ELSE Err("AllServersFailed", ""), << >>)
          /\ UNCHANGED syncState
     ELSE /\ TimeOffset' = p.result.Offset
          /\ LastSync' = Now
          /\ MultiReturns(p, Nil, <<p.result>>)
  /\ UNCHANGED <<config, serverManager, alone, phase, sched, counters,
                 started, direct>>

RaceSteps ==
  \/ \E p \in Procs : RaceBegin(p)
  \/ \E p \in Procs, i \in 1..MaxServers, r \in RaceResponses :
       RaceWorker(p, i, r)
  \/ \E p \in Procs : RaceClose(p)
  \/ \E p \in Procs : RaceReceive(p)
  \/ \E p \in Procs : RaceFinish(p)

\* ------------------------------------------------------------ the statuses
\* The ServerStatus a goroutine builds from the outcome of its exchange.
StatusOf(server, res) ==
  IF res.err # "nil" THEN ServerStatus(server)
  ELSE [Address |-> server, Reachable |-> TRUE, LastResponse |-> Now,
        RTT |-> res.RTT, Stratum |-> res.Stratum, Offset |-> res.Offset]

\* Variant: a comparison that leaves the stratum out.
Less_RTTOnly(servers, a, b) ==
  LET si == servers[a]
      sj == servers[b]
  IN IF si.Reachable # sj.Reachable THEN si.Reachable
     ELSE si.RTT < sj.RTT

\* The comparison reorderServers sorts with: reachable first, then lower
\* stratum, then lower RTT.
Less(servers, a, b) ==
  LET si == servers[a]
      sj == servers[b]
  IN IF si.Reachable # sj.Reachable THEN si.Reachable
     ELSE IF si.Stratum # sj.Stratum THEN si.Stratum < sj.Stratum
     ELSE si.RTT < sj.RTT

\* reorderServers: the addresses are collected by ranging over the map, in
\* an order the runtime picks, and sorted with a stable sort.  The outcomes
\* are the arrangements of the addresses that are sorted under Less.
reorderServers(servers) ==
  {l \in ListsOfLen(Cardinality(DOMAIN servers)) :
     /\ {l[i] : i \in 1..Len(l)} = DOMAIN servers
     /\ \A i, j \in 1..Len(l) : i < j => ~Less(servers, l[j], l[i])}

\* UpdateServerStatus: the managers that can result from storing status for
\* server; an address the manager does not know is left out.
UpdateServerStatus(sm, server, status) ==
  IF server \notin DOMAIN sm.servers THEN {sm}
  ELSE LET servers == [sm.servers EXCEPT ![server] = status]
       IN {[sm EXCEPT !.servers = servers, !.serverOrder = l] :
             l \in reorderServers(servers)}

\* ------------------------------------------- GetStatus / GetMultiServerStatus
GetStatus == MultiCall("status", "GetStatus")

GetMultiServerStatus == MultiCall("statusall", "GetMultiServerStatus")

\* Variant: a status query that does not test for an empty list.
StatusBegin_Unchecked(p) ==
  /\ p.kind \in {"status", "statusall"} /\ p.pc = "begin"
  /\ IF Len(Servers) = 0
     THEN MultiReturns(p, Nil, << >>)
     ELSE /\ g' = Become(g, p,
                    [p EXCEPT !.pc = IF p.kind = "status" THEN "loop"
                                     ELSE "collect",
                              !.snap = Servers, !.tmo = Timeout,
                              !.wg = IF p.kind = "status" THEN {}
                                     ELSE 1..Len(Servers)])
          /\ UNCHANGED last
  /\ UNCHANGED <<config, serverManager, alone, phase, sched, counters,
                 syncState, started, direct>>

\* GetStatusBinary / GetMultiServerStatus: copy the configuration under the
\* mutex; an empty list ends the call; GetMultiServerStatus launches one
\* goroutine per server.
StatusBegin(p) ==
  /\ p.kind \in {"status", "statusall"} /\ p.pc = "begin"
  /\ IF Len(Servers) = 0
     THEN MultiReturns(p, Err("NoServersConfigured", ""), << >>)
     ELSE /\ g' = Become(g, p,
                    [p EXCEPT !.pc = IF p.kind = "status" THEN "loop"
                                     ELSE "collect",
                              !.snap = Servers, !.tmo = Timeout,
                              !.wg = IF p.kind = "status" THEN {}
                                     ELSE 1..Len(Servers)])
          /\ UNCHANGED last
  /\ UNCHANGED <<config, serverManager, alone, phase, sched, counters,
                 syncState, started, direct>>

\* One iteration of the loop of GetStatusBinary: the exchange with the next
\* server answers r and its status is appended; after the last server the
\* statuses are returned.
StatusExchange(p, r) ==
  /\ p.kind = "status" /\ p.pc = "loop"
  /\ LET i == Len(p.statuses) + 1
         res == syncWithServerBinary(p.snap[i], r)
         q == [p EXCEPT !.statuses = Append(@, StatusOf(p.snap[i], res)),
                        !.results = Append(@, Exchanged(i, p.snap[i], r, res))]
     IN IF i = Len(p.snap)
        THEN /\ g' = Exit(g, p)
             /\ last' = [Returned(p.op, Nil, 0) EXCEPT !.val = q.statuses,
                                                       !.tried = q.results]
        ELSE /\ g' = Become(g, p, q)
             /\ UNCHANGED last
  /\ UNCHANGED <<config, serverManager, alone, phase, sched, counters,
                 syncState, started, direct>>

\* The goroutine of GetMultiServerStatus for the server at position i: its
\* exchange is answered by r and it sends the status.
StatusWorker(p, i, r) ==
  /\ p.kind = "statusall" /\ i \in p.wg
  /\ LET res == syncWithServerBinary(p.snap[i], r)
     IN g' = Become(g, p,
               [p EXCEPT !.wg = @ \ {i},
                         !.statusChan = Append(@, StatusOf(p.snap[i], res)),
                         !.results = Append(@, Exchanged(i, p.snap[i], r, res))])
  /\ UNCHANGED <<config, serverManager, alone, phase, sched, counters,
                 syncState, started, direct, last>>

\* The closing goroutine: wg.Wait() returns and statusChan is closed.
StatusClose(p) ==
  /\ p.kind = "statusall" /\ p.pc = "collect"
  /\ p.wg = {} /\ ~p.chClosed
  /\ g' = Become(g, p, [p EXCEPT !.chClosed = TRUE])
  /\ UNCHANGED <<config, serverManager, alone, phase, sched, counters,
                 syncState, started, direct, last>>

\* for status := range statusChan: one status is received and appended.
StatusReceive(p) ==
  /\ p.kind = "statusall" /\ p.pc = "collect"
  /\ p.statusChan # << >>
  /\ g' = Become(g, p, [p EXCEPT !.statusChan = Tail(@),
                                 !.statuses = Append(@, Head(p.statusChan))])
  /\ UNCHANGED <<config, serverManager, alone, phase, sched, counters,
                 syncState, started, direct, last>>

\* statusChan is closed and drained: the statuses are returned.
StatusFinish(p) ==
  /\ p.kind = "statusall" /\ p.pc = "collect"
  /\ p.statusChan = << >> /\ p.chClosed
  /\ MultiReturns(p, Nil, p.statuses)
  /\ UNCHANGED <<config, serverManager, alone, phase, sched, counters,
                 syncState, started, direct>>

StatusSteps ==
  \/ \E p \in Procs : StatusBegin(p)
  \/ \E p \in Procs, r \in Responses : StatusExchange(p, r)
  \/ \E p \in Procs, i \in 1..MaxServers, r \in Responses :
       StatusWorker(p, i, r)
  \/ \E p \in Procs : StatusClose(p)
  \/ \E p \in Procs : StatusReceive(p)
  \/ \E p \in Procs : StatusFinish(p)

\* ------------------------------------------------------------ ProbeAllServers
ProbeAllServers ==
  /\ serverManager # NoManager
  /\ MultiCall("probe", "ProbeAllServers")

\* Copy the manager's order under its mutex; an empty order ends the call,
\* otherwise one goroutine per server is launched.
ProbeBegin(p) ==
  /\ p.kind = "probe" /\ p.pc = "begin"
  /\ IF Len(serverManager.serverOrder) = 0
     THEN MultiReturns(p, Err("NoServersAvailable", ""), << >>)
     ELSE /\ g' = Become(g, p, [p EXCEPT !.pc = "wait",
                                          !.snap = serverManager.serverOrder,
                                          !.tmo = serverManager.timeout,
                                          !.wg = 1..Len(serverManager.serverOrder)])
          /\ UNCHANGED last
  /\ UNCHANGED <<config, serverManager, alone, phase, sched, counters,
                 syncState, started, direct>>

\* The goroutine for the server at position i: its exchange is answered by
\* r; it builds the status and, after a failure, stores the error in lastErr
\* (p.ret) under mu.  The status waits in p.statuses to be stored.
ProbeWorker(p, i, r) ==
  /\ p.kind = "probe" /\ i \in p.wg
  /\ \A k \in 1..Len(p.statuses) : p.statuses[k].i # i
  /\ LET res == syncWithServerBinary(p.snap[i], r)
         q == [p EXCEPT !.statuses =
                          Append(@, [i |-> i, status |-> StatusOf(p.snap[i], res)]),
                        !.results = Append(@, Exchanged(i, p.snap[i], r, res))]
     IN g' = Become(g, p, IF res.err # "nil"
                          THEN [q EXCEPT !.ret = Err(res.err, "")]
                          ELSE q)
  /\ UNCHANGED <<config, serverManager, alone, phase, sched, counters,
                 syncState, started, direct, last>>

\* A goroutine stores its status: UpdateServerStatus under the manager's
\* mutex, then wg.Done().
ProbeUpdate(p, k) ==
  /\ p.kind = "probe" /\ k \in 1..Len(p.statuses)
  /\ serverManager' \in UpdateServerStatus(serverManager,
                                           p.statuses[k].status.Address,
                                           p.statuses[k].status)
  /\ g' = Become(g, p,
            [p EXCEPT !.wg = @ \ {p.statuses[k].i},
                      !.statuses = SubSeq(@, 1, k - 1)
                                     \o SubSeq(@, k + 1, Len(@))])
  /\ UNCHANGED <<config, alone, phase, sched, counters, syncState, started,
                 direct, last>>

\* Variant: a probe that returns without wg.Wait().
ProbeFinish_NoWait(p) ==
  /\ p.kind = "probe" /\ p.pc = "wait"
  /\ MultiReturns(p,
       IF \E a \in DOMAIN serverManager.servers :
            /\ \E j \in 1..Len(serverManager.serverOrder) :
                 serverManager.serverOrder[j] = a
            /\ serverManager.servers[a].Reachable
       THEN Nil
       ELSE IF p.ret # Nil THEN Err("AllServersUnreachable", p.ret.kind)
       ELSE Err("AllServersUnreachable", ""), << >>)
  /\ UNCHANGED <<config, serverManager, alone, phase, sched, counters,
                 syncState, started, direct>>

\* wg.Wait() returned: nil if a server of the order is reachable, otherwise
\* an error that wraps lastErr.
ProbeFinish(p) ==
  /\ p.kind = "probe" /\ p.pc = "wait" /\ p.wg = {}
  /\ MultiReturns(p,
       IF \E a \in DOMAIN serverManager.servers :
            /\ \E j \in 1..Len(serverManager.serverOrder) :
                 serverManager.serverOrder[j] = a
            /\ serverManager.servers[a].Reachable
       THEN Nil
       ELSE IF p.ret # Nil THEN Err("AllServersUnreachable", p.ret.kind)
       ELSE Err("AllServersUnreachable", ""), << >>)
  /\ UNCHANGED <<config, serverManager, alone, phase, sched, counters,
                 syncState, started, direct>>

ProbeSteps ==
  \/ \E p \in Procs : ProbeBegin(p)
  \/ \E p \in Procs, i \in 1..MaxServers, r \in RaceResponses :
       ProbeWorker(p, i, r)
  \/ \E p \in Procs, k \in 1..MaxServers : ProbeUpdate(p, k)
  \/ \E p \in Procs : ProbeFinish(p)

\* ----------------------------------------------------- the configured list
\* RemoveServer: the first occurrence of server is cut out of the list.
RECURSIVE Without(_, _)
Without(l, server) ==
  IF l = << >> THEN << >>
  ELSE IF Head(l) = server THEN Tail(l)
  ELSE <<Head(l)>> \o Without(Tail(l), server)

Contains(l, server) == \E i \in 1..Len(l) : l[i] = server

\* val: the argument and the boolean returned.
RemoveServer(server) ==
  /\ phase = "ready"
  /\ Servers' = Without(Servers, server)
  /\ last' = [Returned("RemoveServer", Nil, 0)
                EXCEPT !.val = <<server, Contains(Servers, server)>>]
  /\ UNCHANGED <<opts, Timeout, SyncInterval, serverManager, alone, phase,
                 sched, counters, syncState, g, started, direct>>

\* Variant: an AddServer that appends without looking.
AddServer_Unchecked(server) ==
  /\ phase = "ready"
  /\ Servers' = Append(Servers, server)
  /\ last' = [Returned("AddServer", Nil, 0) EXCEPT !.val = <<server>>]
  /\ UNCHANGED <<opts, Timeout, SyncInterval, serverManager, alone, phase,
                 sched, counters, syncState, g, started, direct>>

\* AddServer: an address already in the list is ignored, a new one is
\* appended.  val: the argument.
AddServer(server) ==
  /\ phase = "ready"
  /\ Servers' = IF Contains(Servers, server) THEN Servers
                ELSE Append(Servers, server)
  /\ last' = [Returned("AddServer", Nil, 0) EXCEPT !.val = <<server>>]
  /\ UNCHANGED <<opts, Timeout, SyncInterval, serverManager, alone, phase,
                 sched, counters, syncState, g, started, direct>>

\* --------------------------------------------- the Server Manager's methods
Duplicate == Err("DuplicateServer", "")
Unknown == Err("UnknownServer", "")

\* The map without the entry of server.
Delete(servers, server) ==
  [a \in DOMAIN servers \ {server} |-> servers[a]]

\* The map with a fresh entry for server.
Insert(servers, server) ==
  [a \in DOMAIN servers \cup {server} |->
     IF a = server THEN ServerStatus(server) ELSE servers[a]]

\* Variant: an AddServer that does not look for the address first.
ManagerAddServer_Overwrite(server) ==
  /\ serverManager # NoManager
  /\ serverManager' =
       [serverManager EXCEPT !.servers = Insert(@, server),
                             !.serverOrder = Append(@, server)]
  /\ last' = [Returned("ManagerAddServer", Nil, 0) EXCEPT !.val = <<server>>]
  /\ UNCHANGED <<config, alone, phase, sched, counters, syncState, g, started,
                 direct>>

\* ServerManager.AddServer: an address the map holds is an error; a new one
\* gets a fresh status and is appended to the order.  val: the argument.
ManagerAddServer(server) ==
  /\ serverManager # NoManager
  /\ IF server \in DOMAIN serverManager.servers
     THEN /\ UNCHANGED serverManager
          /\ last' = [Returned("ManagerAddServer", Duplicate, 0)
                        EXCEPT !.val = <<server>>]
     ELSE /\ serverManager' =
               [serverManager EXCEPT !.servers = Insert(@, server),
                                     !.serverOrder = Append(@, server)]
          /\ last' = [Returned("ManagerAddServer", Nil, 0)
                        EXCEPT !.val = <<server>>]
  /\ UNCHANGED <<config, alone, phase, sched, counters, syncState, g, started,
                 direct>>

\* ServerManager.RemoveServer: an address the map does not hold is an error;
\* otherwise it is deleted from the map and cut out of the order.
ManagerRemoveServer(server) ==
  /\ serverManager # NoManager
  /\ IF server \notin DOMAIN serverManager.servers
     THEN /\ UNCHANGED serverManager
          /\ last' = [Returned("ManagerRemoveServer", Unknown, 0)
                        EXCEPT !.val = <<server>>]
     ELSE /\ serverManager' =
               [serverManager EXCEPT !.servers = Delete(@, server),
                                     !.serverOrder = Without(@, server)]
          /\ last' = [Returned("ManagerRemoveServer", Nil, 0)
                        EXCEPT !.val = <<server>>]
  /\ UNCHANGED <<config, alone, phase, sched, counters, syncState, g, started,
                 direct>>

\* The statuses handed to UpdateServerStatus: unreachable without and with
\* metrics, reachable at stratum 2 with RTT 50, reachable at stratum 1 with
\* RTT 80.
StatusArgs(server) ==
  {ServerStatus(server),
   [ServerStatus(server) EXCEPT !.Stratum = 2, !.RTT = 50],
   [ServerStatus(server) EXCEPT !.Reachable = TRUE, !.Stratum = 2, !.RTT = 50],
   [ServerStatus(server) EXCEPT !.Reachable = TRUE, !.Stratum = 1, !.RTT = 80]}

\* A call of UpdateServerStatus from outside the probe.  val: the address.
UpdateStatus(server, status) ==
  /\ serverManager # NoManager
  /\ serverManager' \in UpdateServerStatus(serverManager, server, status)
  /\ last' = [Returned("UpdateServerStatus",
                       IF server \in DOMAIN serverManager.servers THEN Nil
                       ELSE Unknown, 0)
                EXCEPT !.val = <<server>>]
  /\ UNCHANGED <<config, alone, phase, sched, counters, syncState, g, started,
                 direct>>

\* What GetBestServer returns on the manager sm: the first reachable server
\* of the order, or the first server, or an error on an empty order.
BestServer(sm) ==
  IF Len(sm.serverOrder) = 0
  THEN [server |-> "", err |-> Err("NoServersAvailable", "")]
  ELSE LET reachable == {j \in 1..Len(sm.serverOrder) :
                           sm.servers[sm.serverOrder[j]].Reachable}
       IN IF reachable # {}
          THEN [server |-> sm.serverOrder[CHOOSE j \in reachable :
                                            \A k \in reachable : j <= k],
                err |-> Nil]
          ELSE [server |-> sm.serverOrder[1], err |-> Nil]

GetBestServer ==
  /\ serverManager # NoManager
  /\ last' = [Returned("GetBestServer", BestServer(serverManager).err, 0)
                EXCEPT !.val = <<BestServer(serverManager).server>>]
  /\ UNCHANGED <<config, serverManager, alone, phase, sched, counters,
                 syncState, g, started, direct>>

\* ------------------------------------------------- the interval and timeout
\* Durations handed to the setters and to New when the configuration is
\* examined: negative, zero, positive.
DurationArgs == {-1, 0, 7}

\* Variant: a setter that stores its argument as given.
Setter_AsGiven(op, arg, default) ==
  /\ phase = "ready"
  /\ IF op = "SetTimeout"
     THEN Timeout' = arg /\ UNCHANGED SyncInterval
     ELSE SyncInterval' = arg /\ UNCHANGED Timeout
  /\ last' = [Returned(op, Nil, 0) EXCEPT !.val = <<arg>>]
  /\ UNCHANGED <<opts, Servers, serverManager, alone, phase, sched, counters,
                 syncState, g, started, direct>>

\* SetSyncInterval / SetPeriodicSyncInterval / SetTimeout: a non-positive
\* argument is replaced by the default, then the field is written under the
\* mutex.  val: the argument.
Setter(op, arg, default) ==
  /\ phase = "ready"
  /\ LET v == IF arg <= 0 THEN default ELSE arg
     IN IF op = "SetTimeout"
        THEN Timeout' = v /\ UNCHANGED SyncInterval
        ELSE SyncInterval' = v /\ UNCHANGED Timeout
  /\ last' = [Returned(op, Nil, 0) EXCEPT !.val = <<arg>>]
  /\ UNCHANGED <<opts, Servers, serverManager, alone, phase, sched, counters,
                 syncState, g, started, direct>>

SetSyncInterval(interval) ==
  Setter("SetSyncInterval", interval, DefaultSyncInterval)

SetPeriodicSyncInterval(interval) ==
  Setter("SetPeriodicSyncInterval", interval, DefaultSyncInterval)

SetTimeout(timeout) == Setter("SetTimeout", timeout, DefaultTimeout)

\* ------------------------------------------------- periodicSyncLoop/syncLoop
\* Variant: a loop whose timer always runs for the default interval.
LoopSelect_DefaultInterval(p) ==
  /\ p.kind = "loop" /\ p.pc = "top"
  /\ g' = Become(g, p, [p EXCEPT !.pc = "select", !.ivl = DefaultSyncInterval,
                                 !.ch = stopChan])
  /\ UNCHANGED <<config, serverManager, alone, phase, sched, counters, syncState, started, direct,
                 last>>

\* Head of an iteration: read the interval, arm the timer and enter the
\* select on the channel that n.stopChan holds now.
LoopSelect(p) ==
  /\ p.kind = "loop" /\ p.pc = "top"
  /\ g' = Become(g, p, [p EXCEPT !.pc = "select", !.ivl = SyncInterval,
                                 !.ch = stopChan])
  /\ UNCHANGED <<config, serverManager, alone, phase, sched, counters, syncState, started, direct,
                 last>>

\* case <-timer.C: the interval elapsed, the loop calls Sync().
LoopTimer(p) ==
  /\ p.kind = "loop" /\ p.pc = "select"
  /\ started < MaxAttempts
  /\ g' = Become(g, p, [p EXCEPT !.pc = "sync", !.ivl = 0, !.ch = 0,
                                 !.ret = Nil])
  /\ started' = started + 1
  /\ UNCHANGED <<config, serverManager, alone, phase, sched, counters, syncState, direct, last>>

\* case <-n.stopChan: the loop returns and its deferred Done() runs.
LoopStopSignal(p) ==
  /\ p.kind = "loop" /\ p.pc = "select"
  /\ p.ch \in closed
  /\ g' = Exit(g, p)
  /\ syncWaitGroup' = syncWaitGroup - 1
  /\ UNCHANGED <<config, serverManager, alone, phase, AutoSync, stopChan, closed, waiting,
                 counters, syncState, started, direct, last>>

\* ------------------------------------------------------------ observations
\* GetPeriodicSyncStatus: the snapshot a call returns when it runs now.
GetPeriodicSyncStatus ==
  [Running |-> IsPeriodicSyncRunning, LastSync |-> LastSync,
   LastError |-> lastError, Interval |-> SyncInterval,
   SuccessCount |-> successCount, ErrorCount |-> errorCount]

Matching(gs, S) == BagCardinality([p \in S |-> gs[p]])
LoopsIn(gs) == Matching(gs, {p \in DOMAIN gs : p.kind = "loop"})
InitialSyncsIn(gs) == Matching(gs, {p \in DOMAIN gs : p.kind = "init"})

\* Loops that have not been told to stop: every loop except one sitting in
\* its select on a channel that is closed.
ActiveLoops ==
  Matching(g, {p \in DOMAIN g :
                 p.kind = "loop" /\ ~(p.pc = "select" /\ p.ch \in closed)})

\* Attempts of a scheduler or of ForceSyncNow that have begun and whose
\* outcome has not been counted.
Uncounted ==
  Matching(g, {p \in DOMAIN g : /\ p.kind \in {"loop", "init", "force"}
                                /\ p.pc \in {"sync", "exchange", "count"}})

AlreadyRunning == Err("AlreadyRunning", "")

\* A call of op returned in this step.
ReturnsNow(op) == last' # last /\ last'.op = op

\* A stop call closed the channel and went on to wait in this step.
StopBlocksNow(op) == waiting'[op] > waiting[op]

\* ------------------------------------------------------------------ claims
\* C1: New with a non-empty server list and AutoSync=true returns a client
\* without error, and that client's scheduler is Running with one loop.
C1_NewAutoSyncRuns ==
  (phase # "uninit" /\ Len(opts.Servers) > 0 /\ opts.AutoSync)
    => (phase = "ready" /\ last.ret = Nil /\ IsPeriodicSyncRunning
        /\ LoopsIn(g) = 1)

\* C2: the scheduler starts Stopped, and from every Stopped state a start()
\* succeeds, moves the scheduler to Running and launches one initial sync
\* attempt and one loop.
C2_StartFromStopped ==
  [][(ReturnsNow("StartPeriodicSync") /\ ~IsPeriodicSyncRunning)
       => /\ last'.ret = Nil
          /\ IsPeriodicSyncRunning'
          /\ LoopsIn(g') = LoopsIn(g) + 1
          /\ InitialSyncsIn(g') = InitialSyncsIn(g) + 1]_vars

\* C3: a start() while Running returns AlreadyRunning and changes nothing:
\* no goroutine is launched, the stop channel is not replaced, and the
\* running flag, interval, counters and SyncState stay as they are.
C3_StartWhileRunning ==
  [][(ReturnsNow("StartPeriodicSync") /\ IsPeriodicSyncRunning)
       => /\ last'.ret = AlreadyRunning
          /\ UNCHANGED <<g, sched, config, counters, syncState, started>>]_vars

C3_Witness ==
  /\ last = Returned("StartPeriodicSync", AlreadyRunning, 0)
  /\ IsPeriodicSyncRunning
  /\ LoopsIn(g) = 1

\* C4: at most one scheduler loop is active, whatever the interleaving of
\* start() and stop() calls.
C4_AtMostOneLoop == ActiveLoops <= 1

\* C5: when a stop() that closed the channel returns, the scheduler is
\* Stopped and no loop is left: no iteration and no loop-driven attempt is
\* in progress.
C5_StopJoinsLoop ==
  [][(\E op \in StopOps : waiting'[op] < waiting[op])
       => (~IsPeriodicSyncRunning' /\ LoopsIn(g') = 0
           /\ syncWaitGroup' = 0)]_vars

C5_Witness ==
  /\ last = Returned("StopPeriodicSync", Nil, 0)
  /\ waiting["StopPeriodicSync"] = 0
  /\ stopChan >= 2 /\ stopChan \in closed
  /\ started >= 2
  /\ LoopsIn(g) = 0

\* C6: stop() is idempotent: the channel is closed at most once per run, and
\* a stop() on a Stopped scheduler returns at once and changes nothing.
C6_StopIdempotent ==
  [][(~IsPeriodicSyncRunning
      /\ \E op \in StopOps : ReturnsNow(op) \/ StopBlocksNow(op))
       => (UNCHANGED <<AutoSync, stopChan, closed, syncWaitGroup>>
           /\ \A op \in StopOps : ~StopBlocksNow(op))]_vars

\* C7: a failed attempt never ends the loop and reaches no caller: while a
\* loop runs and records an attempt the number of loops, the running state
\* and the last returned result stay as they are and the loop goes back to
\* the head of its iteration; a loop goes away only by taking the stop
\* signal in its select.
C7_FailureKeepsLoop ==
  [][/\ \A p \in Procs :
          (p.kind = "loop" /\ p.pc \in {"exchange", "count", "record"}
           /\ CopiesIn(p, g') < CopiesIn(p, g))
            => /\ LoopsIn(g') = LoopsIn(g)
               /\ UNCHANGED <<AutoSync, stopChan, closed, syncWaitGroup, last>>
               /\ (p.pc = "record" =>
                     LET top == [Proc("loop", "top", "", TRUE)
                                   EXCEPT !.ret = p.ret]
                     IN CopiesIn(top, g') > CopiesIn(top, g))
     /\ LoopsIn(g') < LoopsIn(g)
          => \E p \in Procs : /\ p.kind = "loop" /\ p.pc = "select"
                              /\ p.ch \in closed
                              /\ g' = Exit(g, p)]_vars

C7_Witness ==
  /\ IsPeriodicSyncRunning
  /\ errorCount > 0 /\ lastError # Nil
  /\ \E p \in Procs : /\ p.kind = "loop" /\ p.pc = "select"
                      /\ p.ch \notin closed
                      /\ p.ret # Nil /\ p.ret = lastError

\* C8: every attempt of a scheduler (initial attempt, timer tick) or of
\* ForceSyncNow adds one to exactly one counter when it completes, so the two
\* counters add up to the number of such attempts that have completed.
C8_EveryAttemptCounted == successCount + errorCount = started - Uncounted

\* C9: a status snapshot is consistent: a counted failure comes with its
\* last error and a counted success with its last-sync time.
C9_SnapshotConsistent ==
  LET s == GetPeriodicSyncStatus
  IN /\ s.ErrorCount > 0 => s.LastError # Nil
     /\ s.SuccessCount > 0 => s.LastSync # 0

\* C10: sequential failover contacts the servers in list order and adopts the
\* first success: when a call succeeds at position k, the servers contacted
\* are exactly the first k of the list, the k-1 before it failed, the stored
\* offset is that exchange's offset, last-sync time is set and nil returned.
C10_SequentialFailover ==
  [][\A p \in Procs :
       (p.kind = "sync" /\ p.pc = "exchange" /\ g' = Exit(g, p)
        /\ last'.ret = Nil)
         => /\ last'.op = p.op
            /\ last'.k = Len(p.tried) + 1
            /\ last'.k <= Len(p.snap)
            /\ \A i \in 1..Len(p.tried) :
                 p.tried[i].server = p.snap[i] /\ p.tried[i].err # "nil"
            /\ \E r \in Responses :
                 LET res == syncWithServerBinary(p.snap[last'.k], r)
                 IN res.err = "nil" /\ TimeOffset' = res.Offset
            /\ LastSync' = Now /\ LastSync' # 0]_vars

C10_Witness ==
  /\ last.op = "SyncWithMultiServer" /\ last.ret = Nil /\ last.k = 2
  /\ Len(Servers) = 2
  /\ TimeOffset = syncWithServerBinary(Servers[2], RespOkB).Offset
  /\ LastSync # 0
  /\ g = EmptyBag

\* The successful results among the exchanges of history h.
Successes(h) == {h[j].res : j \in {k \in 1..Len(h) : h[k].err = "nil"}}

\* The ranking key: lower stratum first, then lower RTT.
RanksBefore(a, b) ==
  \/ a.Stratum < b.Stratum
  \/ (a.Stratum = b.Stratum /\ a.RTT < b.RTT)

RaceReturned == last.op = "SyncWithMultiServerParallel"

ByPosition(h) ==
  [i \in 1..Len(h) |-> (CHOOSE e \in {h[j] : j \in 1..Len(h)} : e.i = i).res]

\* The best of the successes of rs, compared one after another.
RECURSIVE BestOf(_, _)
BestOf(rs, best) ==
  IF rs = << >> THEN best
  ELSE BestOf(Tail(rs), IF Head(rs).err = "nil" /\ Better(Head(rs), best)
                        THEN Head(rs) ELSE best)

\* C12: the offset a race adopts depends on the per-server results only, not
\* on the order in which the attempts finish.  One of the orders is the list
\* order, so that is: the adopted offset is always the one adopted when the
\* attempts finish in list order.
C12_RaceDeterministic ==
  (RaceReturned /\ last.ret = Nil)
    => TimeOffset = BestOf(ByPosition(last.tried), NoResult).Offset

StrategyOps == {"Sync", "SyncWithMultiServer", "SyncWithMultiServerParallel"}

\* C13: a call of a strategy that made exchanges fails exactly when all of
\* them failed; it then returns AllServersFailed with the cause of the
\* failure that came last (sequential: that of the last server of the list)
\* and leaves TimeOffset and LastSync as they were.
C13_FailsWhenAllFailed ==
  [][\A p \in Procs :
       (p.kind \in {"sync", "race"} /\ g' = Exit(g, p)
        /\ last'.tried # << >>)
         => LET h == last'.tried
            IN /\ last'.op = p.op /\ p.op \in StrategyOps
               /\ last'.ret # Nil <=> \A j \in 1..Len(h) : h[j].err # "nil"
               /\ last'.ret # Nil
                    => /\ last'.ret = Err("AllServersFailed", h[Len(h)].err)
                       /\ Len(h) = Len(p.snap)
                       /\ p.kind = "sync"
                            => h[Len(h)].server = p.snap[Len(p.snap)]
                       /\ UNCHANGED syncState]_vars

\* A race fails with the second of two different causes, after an earlier
\* call had stored an offset.
C13_Witness ==
  /\ RaceReturned /\ Len(last.tried) = 2
  /\ last.tried[1].err = "ReadFailed"
  /\ last.ret = Err("AllServersFailed", "InvalidStratum")
  /\ TimeOffset # 0 /\ LastSync # 0

\* The value stored for a duration argument.
Stored(arg, default) == IF arg > 0 THEN arg ELSE default

\* C21: on a client built by New the timeout and the interval are positive;
\* New and each setter store a positive argument as given and the default
\* (5 s, 3600 s) for a zero or negative one, and leave the other field alone.
C21_PositiveDurations ==
  [][/\ phase' = "ready" => (Timeout' > 0 /\ SyncInterval' > 0)
     /\ (phase = "uninit" /\ phase' = "ready")
          => /\ Timeout' = Stored(opts.Timeout, 5)
             /\ SyncInterval' = Stored(opts.SyncInterval, 3600)
     /\ (phase = "ready" /\ last' # last /\ last'.op = "SetTimeout")
          => /\ Timeout' = Stored(last'.val[1], 5)
             /\ UNCHANGED SyncInterval
     /\ (phase = "ready" /\ last' # last
           /\ last'.op \in {"SetSyncInterval", "SetPeriodicSyncInterval"})
          => /\ SyncInterval' = Stored(last'.val[1], 3600)
             /\ UNCHANGED Timeout
     /\ (phase = "ready" /\ last' = last) => UNCHANGED <<Timeout, SyncInterval>>
    ]_vars

\* A client built with a negative timeout and a zero interval, whose
\* interval was then set with a negative argument and whose timeout with a
\* positive one.
C21_Witness ==
  /\ phase = "ready"
  /\ opts.Timeout < 0 /\ opts.SyncInterval = 0
  /\ last.op = "SetSyncInterval" /\ last.val[1] < 0
  /\ SyncInterval = 3600 /\ Timeout = 7

ManagerOf == serverManager # NoManager

\* a stands before b in the order l.
Before(l, a, b) ==
  \E i, j \in 1..Len(l) : i < j /\ l[i] = a /\ l[j] = b

\* Status x is strictly better than y under (reachable descending, stratum
\* ascending, RTT ascending).
StrictlyBetter(x, y) ==
  \/ x.Reachable /\ ~y.Reachable
  \/ x.Reachable = y.Reachable /\ x.Stratum < y.Stratum
  \/ x.Reachable = y.Reachable /\ x.Stratum = y.Stratum /\ x.RTT < y.RTT

\* C22: the manager's order is always ranked: no server is strictly better
\* than one that stands before it.
C22_OrderIsRanked ==
  ManagerOf =>
    \A a, b \in DOMAIN serverManager.servers :
      Before(serverManager.serverOrder, a, b)
        => ~StrictlyBetter(serverManager.servers[b], serverManager.servers[a])

\* C23: across every change of the manager, two servers it keeps that are
\* equal on (reachable, stratum, RTT) afterwards stand in the order they
\* stood in before.
C23_StableReorder ==
  [][(ManagerOf /\ ManagerOf')
       => \A a, b \in DOMAIN serverManager.servers
                         \cap DOMAIN serverManager'.servers :
            LET x == serverManager'.servers[a]
                y == serverManager'.servers[b]
            IN (/\ a # b
                /\ ~StrictlyBetter(x, y) /\ ~StrictlyBetter(y, x)
                /\ Before(serverManager.serverOrder, a, b))
                 => Before(serverManager'.serverOrder, a, b)]_vars

LastFailure(h) ==
  LET failed == {j \in 1..Len(h) : h[j].err # "nil"}
  IN h[CHOOSE j \in failed : \A k \in failed : k <= j].err

C27_ListWithoutDuplicates ==
  [][/\ NoDuplicates(Servers')
     /\ (last' # last \/ Servers' # Servers)
          => /\ last'.op = "AddServer"
                  => Servers' = IF Contains(Servers, last'.val[1]) THEN Servers
                                ELSE Servers \o <<last'.val[1]>>
             /\ last'.op = "RemoveServer"
                  => /\ last'.val[2] = Contains(Servers, last'.val[1])
                     /\ ~Contains(Servers', last'.val[1])
                     /\ ~last'.val[2] => Servers' = Servers
                     /\ last'.val[2]
                          => /\ Len(Servers') = Len(Servers) - 1
                             /\ \A a \in ServerNames \ {last'.val[1]} :
                                  Contains(Servers', a) = Contains(Servers, a)
             /\ last'.op \notin {"AddServer", "RemoveServer", "New"}
                  => Servers' = Servers]_vars

\* An address was added again while present, and the list, from which
\* another address had been removed, is unchanged.
C27_Witness ==
  /\ last.op = "AddServer" /\ Contains(opts.Servers, last.val[1])
  /\ Contains(Servers, last.val[1])
  /\ Len(Servers) = Len(opts.Servers) - 1
  /\ NoDuplicates(Servers)

\* A StopPeriodicSync call has closed the channel of a started scheduler
\* and waits for its loop, and no other stop call is waiting.  (The counter
\* has been above zero since the start that made this channel, so no stop
\* call has returned since, and the one that closed it is the one waiting.)
StopWaitsForLoop ==
  /\ stopChan >= 2 /\ stopChan \in closed
  /\ syncWaitGroup > 0
  /\ waiting["StopPeriodicSync"] = 1

\* C28: a StopPeriodicSync call issued while the scheduler is running
\* eventually returns.
C28_StopReturns == StopWaitsForLoop ~> (waiting["StopPeriodicSync"] = 0)

IntervalSetters == {"SetSyncInterval", "SetPeriodicSyncInterval"}

\* The goroutines of kind that this step launched, moved on or ended.
Stepped(kind) ==
  {p \in BagToSet(g) \cup BagToSet(g') :
     p.kind = kind /\ CopiesIn(p, g') # CopiesIn(p, g)}

\* C29: a step of an interval setter or of a ForceSyncNow call leaves every
\* loop that sits in its select as it is, with the timer armed for the
\* interval read at the head of that iteration; and a loop that enters its
\* select has armed the timer for the interval stored at that moment.
C29_PendingWaitUntouched ==
  [][/\ ((last' # last /\ last'.op \in IntervalSetters)
           \/ Stepped("force") # {})
          => \A p \in Procs :
               (p.kind = "loop" /\ p.pc = "select")
                 => CopiesIn(p, g') = CopiesIn(p, g)
     /\ \A q \in Stepped("loop") :
          (q.pc = "select" /\ CopiesIn(q, g') > CopiesIn(q, g))
            => q.ivl = SyncInterval /\ UNCHANGED SyncInterval]_vars

\* A forced sync has returned while the loop sits in its select with the
\* timer armed for the interval read before a setter changed it.
C29_Witness ==
  /\ last.op = "ForceSyncNow"
  /\ \E p \in Procs :
       /\ p.kind = "loop" /\ p.pc = "select"
       /\ p.ivl # SyncInterval /\ SyncInterval = 7
       /\ p.ivl = Stored(opts.SyncInterval, 3600)

\* The offsets a successful exchange can return.
ExchangeOffsets ==
  {syncWithServerBinary("s1", r).Offset :
     r \in {x \in RaceResponses : syncWithServerBinary("s1", x).err = "nil"}}

\* C31: SyncState changes only in the step in which a call of a strategy
\* returns nil, and that step stores the offset of a successful exchange of
\* that call together with the time of the write; a call that returns an
\* error leaves SyncState as it was; the stored offset is always zero or the
\* offset of an exchange.
C31_OffsetWrittenOnce ==
  [][/\ syncState' # syncState
          => /\ LastSync' = Now
             /\ \E p \in Procs :
                  /\ p.kind \in {"sync", "race"} /\ g' = Exit(g, p)
                  /\ last'.op = p.op /\ last'.ret = Nil
                  /\ last'.val[1] \in Successes(last'.tried)
                  /\ TimeOffset' = last'.val[1].Offset
     /\ \A p \in Procs :
          (p.kind \in {"sync", "race"} /\ g' = Exit(g, p) /\ last' # last
           /\ last'.ret # Nil)
            => UNCHANGED syncState
     /\ TimeOffset' \in {0} \cup ExchangeOffsets]_vars

\* A call has stored the offset of its exchange while another call, begun
\* before that write, has had a failure and goes on.
C31_Witness ==
  /\ last.op \in StrategyOps /\ last.ret = Nil
  /\ TimeOffset = last.val[1].Offset /\ TimeOffset # 0
  /\ LastSync = Now
  /\ \E p \in Procs : p.pc = "exchange" /\ Len(p.tried) = 1

\* The call that returned last is a StopPeriodicSync, no stop call is still
\* waiting, and no ForceSyncNow call is under way: since that return no
\* start, sync or forced sync has been called.
StopHasReturned ==
  /\ last.op = "StopPeriodicSync"
  /\ waiting["StopPeriodicSync"] = 0
  /\ \A p \in Procs : p.kind # "force"

\* C36: from the return of a stop on, SyncState, the last error and the
\* counters stay as they are.
C36_QuietAfterStop ==
  [][StopHasReturned => UNCHANGED <<syncState, counters>>]_vars

\* a < b for 32-bit words.
Below(a, b) == a.hi < b.hi \/ (a.hi = b.hi /\ a.lo < b.lo)

\* s - 2208988800 as an integer: its sign and its magnitude.
SecondsSince1970(s) ==
  IF Below(s, ntpEpoch)
  THEN [negative |-> TRUE, magnitude |-> SubWord(ntpEpoch, s)]
  ELSE [negative |-> FALSE, magnitude |-> SubWord(s, ntpEpoch)]

\* floor(f * 10^9 / 2^32) for the fractions decoded.
FloorNanos(f) ==
  CASE f = Word(0, 0) -> 0
    [] f = Word(0, 1) -> 0
    [] f = Word(0, 4) -> 0
    [] f = Word(0, 5) -> 1
    [] f = Word(0, 65535) -> 15258
    [] f = Word(1, 0) -> 15258
    [] f = Word(16384, 0) -> 250000000
    [] f = Word(32767, 65535) -> 499999999
    [] f = Word(32768, 0) -> 500000000
    [] f = Word(65535, 65535) -> 999999999

\* C33: ntpTimeToTime(s, f) has unix seconds s - 2208988800, negative when
\* s < 2208988800, and nanoseconds floor(f * 10^9 / 2^32).  (The seconds of
\* the result come from a uint32, so they are never negative.)
C33_InverseConversion ==
  (decoded # None /\ instant = None)
    => /\ [negative |-> FALSE, magnitude |-> decoded.sec]
            = SecondsSince1970(stamp.seconds)
       /\ decoded.nsec = FloorNanos(stamp.fraction)

\* C34: the manager's order names every address of the status map exactly
\* once and no other address.
C34_OrderMatchesMap ==
  ManagerOf =>
    /\ NoDuplicates(serverManager.serverOrder)
    /\ {serverManager.serverOrder[j] :
          j \in 1..Len(serverManager.serverOrder)}
         = DOMAIN serverManager.servers

\* C30: while a parallel race has goroutines or unreceived results, it
\* neither writes SyncState nor returns; when it returns every attempt it
\* launched has finished (one exchange per server of its copy of the list),
\* every result has been received, and the adopted result is a success that
\* no success of the whole call ranks before.
C30_RaceWaitsForAll ==
  [][\A p \in Procs :
       (p.kind = "race" /\ p.pc = "collect")
         => /\ syncState' # syncState => g' = Exit(g, p)
            /\ g' = Exit(g, p)
                 => LET h == last'.tried
                    IN /\ p.wg = {} /\ p.chClosed /\ p.resultChan = << >>
                       /\ h = p.results /\ Len(h) = Len(p.snap)
                       /\ \A i \in 1..Len(p.snap) :
                            \E j \in 1..Len(h) :
                              h[j].i = i /\ h[j].server = p.snap[i]
                       /\ last'.ret = Nil <=> Successes(h) # {}
                       /\ last'.ret = Nil
                            => /\ last'.val[1] \in Successes(h)
                               /\ \A res \in Successes(h) :
                                    ~RanksBefore(res, last'.val[1])
                               /\ TimeOffset' = last'.val[1].Offset]_vars

\* A race returned nil after both attempts: the first to finish was a
\* success, and the call still waited for the second, which failed.
C30_Witness ==
  /\ RaceReturned /\ g = EmptyBag /\ last.ret = Nil
  /\ Len(last.tried) = 2
  /\ last.tried[1].err = "nil" /\ last.tried[2].err # "nil"
  /\ TimeOffset = last.tried[1].res.Offset /\ LastSync # 0

NoServers == Err("NoServersConfigured", "")

\* C20: New on an empty list returns an error and no client; a strategy or
\* status query that begins when the configured list is empty returns
\* NoServersConfigured at once, having made no exchange, and leaves
\* TimeOffset and LastSync as they were.
C20_EmptyListIsError ==
  [][/\ (phase = "uninit" /\ opts.Servers = << >> /\ phase' # phase)
         => (phase' = "failed" /\ last'.op = "New" /\ last'.ret # Nil)
     /\ \A p \in Procs :
          (p.pc \in {"sync", "begin"} /\ Servers = << >> /\ g' # g)
            => /\ g' = Exit(g, p)
               /\ last' = Returned(p.op, NoServers, 0)
               /\ UNCHANGED syncState]_vars

\* A status query failed on a list emptied by RemoveServer, after a sync
\* had stored an offset.
C20_Witness ==
  /\ last = Returned("GetMultiServerStatus", NoServers, 0)
  /\ phase = "ready" /\ Servers = << >> /\ opts.Servers # << >>
  /\ TimeOffset # 0 /\ LastSync # 0

\* The exchange of the last Sync call that returned, when all exchanges of
\* the run are answered by packet.
SyncReturned == last.op = "Sync"
Accepted == SyncReturned /\ last.ret = Nil
Parsed == packet.io = "ok" /\ Read(packet.size) = PacketSize
ValidStrata == 1..15

\* C14: every accepted result, and so every offset merged into SyncState,
\* comes from a response whose stratum is in 1..15; a response with stratum
\* 0 or 16..255 is rejected.
C14_StratumInRange ==
  SyncReturned =>
    /\ Accepted => /\ packet.stratum \in ValidStrata
                   /\ last.val[1].Stratum \in ValidStrata
    /\ (Parsed /\ packet.stratum \notin ValidStrata)
         => (last.ret # Nil /\ TimeOffset = 0 /\ LastSync = 0)

\* Stratum-0 responses: in time, with a negative round trip, oversized.
StratumZero ==
  {RespStratum0, Packet("ok", 48, 0, 10, 16, 17, 13, 0),
   Packet("ok", 68, 0, 10, 16, 17, 13, 3)}

\* C15: an exchange answered with stratum 0 fails with InvalidStratum,
\* whatever its timestamps; in a race its server is not the one adopted, in
\* a sequential call it is not adopted and the next server of the list, if
\* any, is tried; when a probe has returned (and no later call is under way)
\* its server is unreachable.
C15_StratumZeroExcluded ==
  /\ \A r \in StratumZero :
       syncWithServerBinary("s1", r) = ExchangeError("InvalidStratum")
  /\ \A j \in 1..Len(last.tried) :
       LET e == last.tried[j]
       IN (e.r.io = "ok" /\ e.r.stratum = 0)
            => /\ e.err = "InvalidStratum"
               /\ last.val # << >> => last.val[1].Server # e.server
               /\ last.op = "SyncWithMultiServer"
                    => /\ last.k # e.i
                       /\ e.i < Len(Servers)
                            => /\ Len(last.tried) > j
                               /\ last.tried[j + 1].server = Servers[e.i + 1]
               /\ (last.op = "ProbeAllServers" /\ g = EmptyBag)
                    => ~serverManager.servers[e.server].Reachable

\* A probe of two servers where the first answered with stratum 0 and the
\* second with a valid response: the first is unreachable, the second is
\* reachable and the probe returned nil.
C15_Witness ==
  /\ last.op = "ProbeAllServers" /\ last.ret = Nil /\ g = EmptyBag
  /\ \E j \in 1..Len(last.tried) :
       /\ last.tried[j].r = RespStratum0 /\ last.tried[j].server = "s1"
  /\ ~serverManager.servers["s1"].Reachable
  /\ serverManager.servers["s2"].Reachable

\* C16: an exchange whose round trip comes out negative fails with
\* NegativeRTT: no result is returned and nothing is merged into SyncState;
\* every accepted result has RTT >= 0.
C16_NegativeRTTRejected ==
  SyncReturned =>
    /\ (Parsed /\ packet.stratum # 0
          /\ packet.mono + packet.t2 < packet.t3)
         => /\ last.ret = Err("AllServersFailed", "NegativeRTT")
            /\ last.val = << >>
            /\ TimeOffset = 0 /\ LastSync = 0
    /\ Accepted => last.val[1].RTT >= 0

C16_Witness ==
  /\ last.op = "Sync"
  /\ last.ret = Err("AllServersFailed", "NegativeRTT")
  /\ packet.t4 >= packet.t1
  /\ direct = MaxDirect /\ g = EmptyBag

\* C17: for every accepted exchange with local send time T1, server receive
\* time T2, server transmit time T3 and local receive time T4 the offset is
\* ((T2-T1)+(T3-T4))/2, truncated toward zero, and the RTT is
\* (T4-T1)-(T3-T2).
C17_OffsetAndRTT ==
  Accepted =>
    LET sum == (packet.t2 - packet.t1) + (packet.t3 - packet.t4)
        res == last.val[1]
    IN /\ res.Offset = (IF sum >= 0 THEN sum \div 2 ELSE -((-sum) \div 2))
       /\ res.RTT = (packet.t4 - packet.t1) - (packet.t3 - packet.t2)
       /\ TimeOffset = res.Offset

\* C18: a datagram that is not exactly 48 bytes long, shorter or longer,
\* makes the exchange fail with MalformedResponse and yields no result.
C18_WrongSizeRejected ==
  (SyncReturned /\ packet.io = "ok" /\ packet.size # PacketSize)
    => /\ last.ret = Err("AllServersFailed", "MalformedResponse")
       /\ last.val = << >>
       /\ TimeOffset = 0 /\ LastSync = 0

\* 2020-01-01T00:00:00Z is 3786825600 = 57782 * 2^16 + 24448 seconds after
\* 1900; half a second is the fraction 0x80000000.
KnownStamps ==
  /\ instant = Time(Jan2020, 0)
       => stamp = [seconds |-> Word(57782, 24448), fraction |-> Word(0, 0)]
  /\ instant = Time(Jan2020, 500000000)
       => stamp = [seconds |-> Word(57782, 24448),
                   fraction |-> Word(32768, 0)]

Encode ==
  /\ instant # None /\ stamp = None
  /\ stamp' = timeToNTPTime(instant)
  /\ UNCHANGED <<config, phase, sched, counters, syncState, g, started, direct,
                 last, serverManager, packet, instant, decoded>>

Decode ==
  /\ stamp # None /\ decoded = None
  /\ decoded' = ntpTimeToTime(stamp.seconds, stamp.fraction)
  /\ UNCHANGED <<config, phase, sched, counters, syncState, g, started, direct,
                 last, serverManager, packet, instant, stamp>>

\* ---------------------------------------------------------- specifications
SyncSteps ==
  \/ \E p \in Procs : SyncBegin(p)
  \/ \E p \in Procs, r \in Responses : SyncExchange(p, r)

RecordingSteps ==
  \/ \E p \in Procs : CountOutcome(p)
  \/ \E p \in Procs : RecordOutcome(p)

LoopSteps ==
  \/ \E p \in Procs : LoopSelect(p)
  \/ \E p \in Procs : LoopTimer(p)
  \/ \E p \in Procs : LoopStopSignal(p)

\* The periodic scheduler on a client with one configured server.
InitScheduler ==
  /\ Init
  /\ opts.Servers \in {<< >>, <<"s1">>}
  /\ opts.Timeout = 0
  /\ ~opts.EnableMultiServer

Next ==
  \/ New
  \/ StartPeriodicSync
  \/ StopPeriodicSync
  \/ StopWait("StopPeriodicSync")
  \/ ForceSyncNow
  \/ SyncSteps
  \/ RecordingSteps
  \/ LoopSteps

Spec == InitScheduler /\ [][Next]_vars

\* The periodic scheduler under fair scheduling.  Every goroutine that can
\* take a step eventually takes one: a blocked Wait() returns once the
\* counter is zero, an exchange ends (within its timeout), an outcome is
\* recorded, a loop reaches its select, and a select whose stop case is
\* ready eventually takes it (Go picks among the ready cases at random, so
\* the timer case cannot win forever).  Calls from outside and the expiry of
\* a timer are not forced.  The steps of one goroutine are finitely many
\* here, so fairness per kind of step is fairness per goroutine.
NextFair ==
  \/ New
  \/ StartPeriodicSync
  \/ StopPeriodicSync
  \/ StopWait("StopPeriodicSync")
  \/ SyncSteps
  \/ RecordingSteps
  \/ LoopSteps

Fairness ==
  /\ WF_vars(StopWait("StopPeriodicSync"))
  /\ WF_vars(SyncSteps)
  /\ WF_vars(RecordingSteps)
  /\ WF_vars(\E p \in Procs : LoopSelect(p))
  /\ SF_vars(\E p \in Procs : LoopStopSignal(p))

SpecFair == InitScheduler /\ [][NextFair]_vars /\ Fairness

\* The older Start / Stop / syncLoop entry points.
NextLegacy ==
  \/ New
  \/ Start
  \/ Stop
  \/ StopWait("Stop")
  \/ ForceSyncNow
  \/ SyncSteps
  \/ RecordingSteps
  \/ LoopSteps

SpecLegacy == InitScheduler /\ [][NextLegacy]_vars

\* One-shot synchronisation calls, alone or concurrent.
InitSync ==
  /\ Init
  /\ ~opts.AutoSync
  /\ opts.SyncInterval = 0
  /\ ~opts.EnableMultiServer

NextSync ==
  \/ New
  \/ Sync
  \/ SyncWithMultiServer
  \/ SyncSteps

SpecSync == InitSync /\ [][NextSync]_vars

\* One exchange at a time: a client with one server whose exchanges are all
\* answered by the packet drawn at the start.
InitExchange ==
  /\ InitClient
  /\ opts = [Servers |-> <<"s1">>, Timeout |-> 0, SyncInterval |-> 0,
             AutoSync |-> FALSE, EnableMultiServer |-> FALSE]
  /\ packet \in Packets
  /\ instant = None /\ stamp = None /\ decoded = None

NextExchange ==
  \/ New
  \/ Sync
  \/ \E p \in Procs : SyncBegin(p)
  \/ \E p \in Procs : SyncExchange(p, packet)

SpecExchange == InitExchange /\ [][NextExchange]_vars

\* The interval setters and ForceSyncNow beside a periodic scheduler that,
\* once started, is not stopped (the channel New made has to be closed by a
\* stop before the scheduler can be started).
InitInterval ==
  /\ Init
  /\ opts.Servers = <<"s1">>
  /\ opts.Timeout = 0 /\ opts.SyncInterval = 0
  /\ ~opts.AutoSync /\ ~opts.EnableMultiServer

NextInterval ==
  \/ New
  \/ (LoopsIn(g) = 0 /\ StopPeriodicSync)
  \/ StopWait("StopPeriodicSync")
  \/ StartPeriodicSync
  \/ \E interval \in DurationArgs : SetPeriodicSyncInterval(interval)
  \/ \E interval \in DurationArgs : SetSyncInterval(interval)
  \/ ForceSyncNow
  \/ \E p \in Procs : SyncBegin(p)
  \/ \E p \in Procs, r \in {RespIOFail, RespOkA} : SyncExchange(p, r)
  \/ RecordingSteps
  \/ \E p \in Procs : LoopSelect(p)
  \/ \E p \in Procs : LoopTimer(p)

SpecInterval == InitInterval /\ [][NextInterval]_vars

\* The lists given to the clients whose calls contact every server.
MultiLists == {<< >>, <<"s1">>, <<"s1", "s2">>}

\* The two strategies and the probe, called one after another on a client
\* built with the Server Manager.
InitMulti ==
  /\ Init
  /\ opts.Servers \in MultiLists
  /\ opts.Timeout = 0 /\ opts.SyncInterval = 0
  /\ ~opts.AutoSync /\ opts.EnableMultiServer

NextMulti ==
  \/ New
  \/ (g = EmptyBag /\ SyncWithMultiServer)
  \/ \E p \in Procs : SyncBegin(p)
  \/ \E p \in Procs, r \in RaceResponses : SyncExchange(p, r)
  \/ SyncWithMultiServerParallel
  \/ RaceSteps
  \/ ProbeAllServers
  \/ ProbeSteps

SpecMulti == InitMulti /\ [][NextMulti]_vars

\* The strategies and the status queries, called one after another on a
\* list that RemoveServer shrinks.
InitList ==
  /\ Init
  /\ opts.Servers \in MultiLists
  /\ opts.Timeout = 0 /\ opts.SyncInterval = 0
  /\ ~opts.AutoSync /\ ~opts.EnableMultiServer

NextList ==
  \/ New
  \/ \E server \in ServerNames : RemoveServer(server)
  \/ (g = EmptyBag /\ Sync)
  \/ (g = EmptyBag /\ SyncWithMultiServer)
  \/ \E p \in Procs : SyncBegin(p)
  \/ \E p \in Procs, r \in Responses : SyncExchange(p, r)
  \/ SyncWithMultiServerParallel
  \/ RaceSteps
  \/ GetStatus
  \/ GetMultiServerStatus
  \/ StatusSteps

SpecList == InitList /\ [][NextList]_vars

\* The configuration: New and the calls that change the interval, the
\* timeout and the server list.
InitConfig ==
  /\ opts \in [Servers : ServerLists, Timeout : DurationArgs,
                SyncInterval : DurationArgs, AutoSync : {FALSE},
                EnableMultiServer : {FALSE}]
  /\ Blank
  /\ packet = None
  /\ instant = None /\ stamp = None /\ decoded = None

NextConfig ==
  \/ New
  \/ \E d \in DurationArgs : SetSyncInterval(d)
  \/ \E d \in DurationArgs : SetPeriodicSyncInterval(d)
  \/ \E d \in DurationArgs : SetTimeout(d)
  \/ \E server \in ServerNames : AddServer(server)
  \/ \E server \in ServerNames : RemoveServer(server)

SpecConfig == InitConfig /\ [][NextConfig]_vars

\* The Server Manager of a client built with it: its methods called one
\* after another.  (A probe changes the manager through UpdateServerStatus
\* only; probes are part of SpecMulti.)
InitManager ==
  /\ Init
  /\ opts.Servers \in MultiLists
  /\ opts.Timeout = 0 /\ opts.SyncInterval = 0
  /\ ~opts.AutoSync /\ opts.EnableMultiServer

NextManager ==
  \/ New
  \/ \E server \in ServerNames : ManagerAddServer(server)
  \/ \E server \in ServerNames : ManagerRemoveServer(server)
  \/ \E server \in ServerNames :
       \E status \in StatusArgs(server) : UpdateStatus(server, status)
  \/ GetBestServer

SpecManager == InitManager /\ [][NextManager]_vars

\* The Server Manager built from any list New accepts, also one that names
\* an address twice (neither New nor NewServerManager looks for repeats).
InitOrder ==
  /\ opts \in [Servers : MultiLists \cup {<<"s1", "s1">>}, Timeout : {0},
                SyncInterval : {0}, AutoSync : {FALSE},
                EnableMultiServer : {TRUE}]
  /\ Blank
  /\ packet = None
  /\ instant = None /\ stamp = None /\ decoded = None

NextOrder ==
  \/ New
  \/ \E server \in ServerNames : ManagerAddServer(server)
  \/ \E server \in ServerNames : ManagerRemoveServer(server)
  \/ \E server \in ServerNames :
       \E status \in StatusArgs(server) : UpdateStatus(server, status)

SpecOrder == InitOrder /\ [][NextOrder]_vars

\* The protocol timestamps decoded alone: seconds at both ends of the range,
\* on either side of 1970 and in 2020; fractions near 0, around 2^16 and the
\* half second, and at the end of the second.
ProtocolSeconds ==
  {Word(0, 0), Word(0, 1), Word(33706, 32383), ntpEpoch, Word(57782, 24448),
   Word(65535, 65535)}
ProtocolFractions ==
  {Word(0, 0), Word(0, 1), Word(0, 4), Word(0, 5), Word(0, 65535), Word(1, 0),
   Word(16384, 0), Word(32767, 65535), Word(32768, 0), Word(65535, 65535)}

InitDecode ==
  /\ InitClient
  /\ opts = [Servers |-> <<"s1">>, Timeout |-> 0, SyncInterval |-> 0,
             AutoSync |-> FALSE, EnableMultiServer |-> FALSE]
  /\ packet = None
  /\ instant = None /\ decoded = None
  /\ stamp \in [seconds : ProtocolSeconds, fraction : ProtocolFractions]

NextDecode == Decode

SpecDecode == InitDecode /\ [][NextDecode]_vars

\* One timestamp conversion at a time, there and back.
InitTime ==
  /\ InitClient
  /\ opts = [Servers |-> <<"s1">>, Timeout |-> 0, SyncInterval |-> 0,
             AutoSync |-> FALSE, EnableMultiServer |-> FALSE]
  /\ packet = None
  /\ instant \in Instants /\ stamp = None /\ decoded = None

NextTime ==
  \/ Encode
  \/ Decode

SpecTime == InitTime /\ [][NextTime]_vars

\* --------------------------------------------------------- the client's mutex
\* Elsewhere a critical section is one step, which is sound as long as no
\* goroutine keeps the mutex from one step to the next.  The operations below
\* do keep it (a deferred RUnlock with calls in between), so here RLock, Lock
\* and the release are steps of their own.  sync.RWMutex: Lock() first
\* announces the writer, which makes every later RLock() wait, and then waits
\* until the readers that hold the mutex have left; it is not reentrant in
\* either mode.
WriterWaits == \E q \in Procs : q.wl

\* RLock() returns.
CanRLock == ~WriterWaits

\* Variant: a mutex whose Lock() does not wait for a shared lock held by the
\* caller itself.
CanLock_Reentrant(p) == p.wl /\ \A q \in Procs \ {p} : q.rl = 0

\* Lock() returns to p.
CanLock(p) == p.wl /\ \A q \in Procs : q.rl = 0

MutexArgs == {0, 7}

\* Sync() called from outside: SyncWithBinary is at its first Lock().
LockedSync ==
  /\ phase = "ready"
  /\ Room(g, 1) /\ direct < MaxDirect
  /\ g' = Spawn(g, [Proc("sync", "sync", "Sync", FALSE) EXCEPT !.wl = TRUE])
  /\ direct' = direct + 1
  /\ UNCHANGED <<config, serverManager, alone, phase, sched, counters,
                 syncState, started, last>>

\* Sync() returned err to p.  An outside caller gets it; UpdateSystemTime
\* gives up on an error (its deferred RUnlock runs) and goes on to n.Now()
\* otherwise.
LockedSyncReturns(p, err, k, val, tried) ==
  IF p.kind = "sync"
  THEN /\ g' = Exit(g, p)
       /\ last' = [Returned(p.op, err, k) EXCEPT !.val = val, !.tried = tried]
  ELSE IF err # Nil
  THEN /\ g' = Exit(g, p)
       /\ last' = [Returned(p.op, Err("SyncFailed", err.kind), 0)
                     EXCEPT !.tried = tried]
  ELSE /\ g' = Become(g, p, [p EXCEPT !.pc = "now", !.wl = FALSE,
                                      !.tried = tried])
       /\ UNCHANGED last

\* SyncWithBinary, first critical section: Lock() returns, the configuration
\* is copied, Unlock().
LockedSyncBegin(p) ==
  /\ p.pc = "sync" /\ p.kind \in {"sync", "systime"}
  /\ CanLock(p)
  /\ IF Len(Servers) = 0
     THEN LockedSyncReturns(p, Err("NoServersConfigured", ""), 0, << >>, << >>)
     ELSE /\ g' = Become(g, p, [p EXCEPT !.pc = "exchange", !.wl = FALSE,
                                          !.snap = Servers, !.tmo = Timeout])
          /\ UNCHANGED last
  /\ UNCHANGED <<config, serverManager, alone, phase, sched, counters,
                 syncState, started, direct>>

\* SyncWithBinary, one iteration of the failover loop: the exchange with the
\* next server answers r.  After a success the goroutine is at its second
\* Lock().
LockedSyncExchange(p, r) ==
  /\ p.pc = "exchange" /\ p.kind \in {"sync", "systime"}
  /\ LET res == syncWithServerBinary(NextServer(p), r)
         tried == Append(p.tried,
                         Exchanged(Len(p.tried) + 1, NextServer(p), r, res))
     IN IF res.err # "nil"
        THEN IF Len(tried) = Len(p.snap)
             THEN LockedSyncReturns(p, Err("AllServersFailed", res.err), 0,
                                    << >>, tried)
             ELSE /\ g' = Become(g, p, [p EXCEPT !.tried = tried])
                  /\ UNCHANGED last
        ELSE /\ g' = Become(g, p, [p EXCEPT !.pc = "store", !.wl = TRUE,
                                            !.tried = tried, !.result = res])
             /\ UNCHANGED last
  /\ UNCHANGED <<config, serverManager, alone, phase, sched, counters,
                 syncState, started, direct>>

\* SyncWithBinary, second critical section: Lock() returns, the offset and
\* the time of the sync are stored, Unlock(), return nil.
LockedSyncStore(p) ==
  /\ p.pc = "store" /\ p.kind \in {"sync", "systime"}
  /\ CanLock(p)
  /\ TimeOffset' = p.result.Offset
  /\ LastSync' = Now
  /\ LockedSyncReturns(p, Nil, Len(p.tried), <<p.result>>, p.tried)
  /\ UNCHANGED <<config, serverManager, alone, phase, sched, counters,
                 started, direct>>

\* SetPeriodicSyncInterval(interval) called: the caller is at Lock().
LockedSetInterval(interval) ==
  /\ phase = "ready"
  /\ Room(g, 1) /\ direct < MaxDirect
  /\ g' = Spawn(g, [Proc("writer", "lock", "SetPeriodicSyncInterval", FALSE)
                      EXCEPT !.wl = TRUE, !.ivl = interval])
  /\ direct' = direct + 1
  /\ UNCHANGED <<config, serverManager, alone, phase, sched, counters,
                 syncState, started, last>>

\* Lock() returns to the caller of SetPeriodicSyncInterval, which stores the
\* interval, unlocks and returns.
LockedSetIntervalRuns(p) ==
  /\ p.kind = "writer"
  /\ CanLock(p)
  /\ SyncInterval' = IF p.ivl <= 0 THEN DefaultSyncInterval ELSE p.ivl
  /\ g' = Exit(g, p)
  /\ last' = [Returned(p.op, Nil, 0) EXCEPT !.val = <<p.ivl>>]
  /\ UNCHANGED <<opts, Servers, Timeout, serverManager, alone, phase, sched,
                 counters, syncState, started, direct>>

\* GetPeriodicSyncStatus() called: the caller is at RLock().
StatusCall ==
  /\ phase = "ready"
  /\ Room(g, 1) /\ direct < MaxDirect
  /\ g' = Spawn(g, Proc("pstatus", "rlock", "GetPeriodicSyncStatus", FALSE))
  /\ direct' = direct + 1
  /\ UNCHANGED <<config, serverManager, alone, phase, sched, counters,
                 syncState, started, last>>

\* GetPeriodicSyncStatus: RLock() returns; the deferred RUnlock is pending
\* and the next thing evaluated is n.IsPeriodicSyncRunning().
StatusRLock(p) ==
  /\ p.kind = "pstatus" /\ p.pc = "rlock"
  /\ CanRLock
  /\ g' = Become(g, p, [p EXCEPT !.pc = "running", !.rl = 1])
  /\ UNCHANGED <<config, serverManager, alone, phase, sched, counters,
                 syncState, started, direct, last>>

\* IsPeriodicSyncRunning, called by GetPeriodicSyncStatus: its RLock()
\* returns.
StatusRunningRLock(p) ==
  /\ p.kind = "pstatus" /\ p.pc = "running"
  /\ CanRLock
  /\ g' = Become(g, p, [p EXCEPT !.pc = "read", !.rl = 2])
  /\ UNCHANGED <<config, serverManager, alone, phase, sched, counters,
                 syncState, started, direct, last>>

\* IsPeriodicSyncRunning reads and returns (RUnlock); GetPeriodicSyncStatus
\* fills in the rest of the snapshot and returns (RUnlock).
StatusReturn(p) ==
  /\ p.kind = "pstatus" /\ p.pc = "read"
  /\ g' = Exit(g, p)
  /\ last' = [Returned(p.op, Nil, 0) EXCEPT !.val = <<GetPeriodicSyncStatus>>]
  /\ UNCHANGED <<config, serverManager, alone, phase, sched, counters,
                 syncState, started, direct>>

\* UpdateSystemTime() called: the caller is at RLock().
UpdateSystemTime ==
  /\ phase = "ready"
  /\ Room(g, 1) /\ direct < MaxDirect
  /\ g' = Spawn(g, Proc("systime", "rlock", "UpdateSystemTime", FALSE))
  /\ direct' = direct + 1
  /\ UNCHANGED <<config, serverManager, alone, phase, sched, counters,
                 syncState, started, last>>

\* UpdateSystemTime: RLock() returns; the deferred RUnlock is pending.
SystemTimeRLock(p) ==
  /\ p.kind = "systime" /\ p.pc = "rlock"
  /\ CanRLock
  /\ g' = Become(g, p, [p EXCEPT !.pc = "check", !.rl = 1])
  /\ UNCHANGED <<config, serverManager, alone, phase, sched, counters,
                 syncState, started, direct, last>>

\* UpdateSystemTime: if n.LastSync.IsZero() it calls n.Sync(), which is
\* SyncWithBinary at its first Lock(); otherwise it goes on to n.Now().
SystemTimeCheck(p) ==
  /\ p.kind = "systime" /\ p.pc = "check"
  /\ g' = IF LastSync = 0
          THEN Become(g, p, [p EXCEPT !.pc = "sync", !.wl = TRUE])
          ELSE Become(g, p, [p EXCEPT !.pc = "now"])
  /\ UNCHANGED <<config, serverManager, alone, phase, sched, counters,
                 syncState, started, direct, last>>

\* UpdateSystemTime: n.Now() takes the shared lock again, reads the offset
\* and releases it.
SystemTimeNow(p) ==
  /\ p.kind = "systime" /\ p.pc = "now"
  /\ CanRLock
  /\ g' = Become(g, p, [p EXCEPT !.pc = "clock", !.ivl = Now + TimeOffset])
  /\ UNCHANGED <<config, serverManager, alone, phase, sched, counters,
                 syncState, started, direct, last>>

\* UpdateSystemTime: the command that sets the clock succeeds or fails (or
\* the platform is not supported), and the call returns (RUnlock).
SystemTimeSet(p, ok) ==
  /\ p.kind = "systime" /\ p.pc = "clock"
  /\ g' = Exit(g, p)
  /\ last' = [Returned(p.op, IF ok THEN Nil ELSE Err("SetTimeFailed", ""), 0)
                EXCEPT !.val = <<p.ivl>>]
  /\ UNCHANGED <<config, serverManager, alone, phase, sched, counters,
                 syncState, started, direct>>

LockedSyncSteps ==
  \E p \in Procs :
    \/ LockedSyncBegin(p)
    \/ \E r \in {RespIOFail, RespOkA} : LockedSyncExchange(p, r)
    \/ LockedSyncStore(p)

PeriodicStatusSteps ==
  \E p \in Procs : StatusRLock(p) \/ StatusRunningRLock(p) \/ StatusReturn(p)

SystemTimeSteps ==
  \E p \in Procs :
    \/ SystemTimeRLock(p)
    \/ SystemTimeCheck(p)
    \/ SystemTimeNow(p)
    \/ \E ok \in BOOLEAN : SystemTimeSet(p, ok)

\* A client with one or two servers, the scheduler off.
InitMutex ==
  /\ opts \in [Servers : {<<"s1">>, <<"s1", "s2">>}, Timeout : {0},
               SyncInterval : {0}, AutoSync : {FALSE},
               EnableMultiServer : {FALSE}]
  /\ Blank
  /\ packet = None
  /\ instant = None /\ stamp = None /\ decoded = None

\* Callers of Sync, SetPeriodicSyncInterval, GetPeriodicSyncStatus and
\* UpdateSystemTime on one client.
NextMutex ==
  \/ New
  \/ LockedSync
  \/ LockedSyncSteps
  \/ \E d \in MutexArgs : LockedSetInterval(d)
  \/ \E p \in Procs : LockedSetIntervalRuns(p)
  \/ StatusCall
  \/ PeriodicStatusSteps
  \/ UpdateSystemTime
  \/ SystemTimeSteps

SpecMutex == InitMutex /\ [][NextMutex]_vars

\* Status queries among writers, under fair scheduling: a goroutine whose
\* RLock() or Lock() can return, whose exchange is in flight (it ends within
\* its timeout) or which is about to return eventually takes that step.
\* Calls from outside are not forced.
NextStatusFair ==
  \/ New
  \/ LockedSync
  \/ LockedSyncSteps
  \/ \E d \in MutexArgs : LockedSetInterval(d)
  \/ \E p \in Procs : LockedSetIntervalRuns(p)
  \/ StatusCall
  \/ PeriodicStatusSteps

StatusFairness ==
  /\ WF_vars(LockedSyncSteps)
  /\ WF_vars(\E p \in Procs : LockedSetIntervalRuns(p))
  /\ WF_vars(PeriodicStatusSteps)

SpecStatusFair == InitMutex /\ [][NextStatusFair]_vars /\ StatusFairness

\* UpdateSystemTime among Sync calls, under fair scheduling.
NextSystemTimeFair ==
  \/ New
  \/ LockedSync
  \/ LockedSyncSteps
  \/ UpdateSystemTime
  \/ SystemTimeSteps

SystemTimeFairness ==
  /\ WF_vars(LockedSyncSteps)
  /\ WF_vars(SystemTimeSteps)

SpecSystemTimeFair ==
  InitMutex /\ [][NextSystemTimeFair]_vars /\ SystemTimeFairness

C35_StatusReturns ==
  (\E p \in Procs : p.kind = "pstatus") ~> (\A p \in Procs : p.kind # "pstatus")

\* C37: an UpdateSystemTime call that found LastSync zero and began its sync
\* attempt eventually returns.
C37_UpdateSystemTimeReturns ==
  (\E p \in Procs : p.kind = "systime" /\ p.pc = "sync")
    ~> (\A p \in Procs : p.kind # "systime")
====
